---- MODULE Spec2Model ----
(***************************************************************************)
(* A model of amtt: the translation of a flat, tabular reliability model   *)
(* into an Isograph reliability block diagram.                             *)
(*                                                                         *)
(* Names of graph nodes are sequences of dot-free tokens: the node         *)
(* "A.T.X" is <<"A", "T", "X">>, so that '.'.join and str.split('.') are   *)
(* concatenation and tokenisation of these sequences.                      *)
(***************************************************************************)
EXTENDS Integers, Sequences, FiniteSets, TLC

VARIABLES
    pc,                       \* position of the translation run
    error,                    \* the exception that ended the run, or "none"
    component_list,           \* RowsContainer._components
    logic_list,               \* RowsContainer._logic
    component_failures_list,  \* RowsContainer._component_failures
    components_index,         \* IRContainer._components_index
    raw_input_graph,          \* IRContainer._raw_input_graph
    g,                        \* the working copy inside _build_components_graph
    components_graph,         \* IRContainer._components_graph
    node_obj,                 \* the 'obj' attribute of the components graph nodes
    failures_index,           \* IRContainer._failures_index
    failures_graph,           \* IRContainer._failures_graph
    uses_templates,           \* IRContainer._uses_templates
    cur,                      \* the compound whose grouped diagram is being built
    sg,                       \* spec_graph of generate_internal_graph for cur
    compound_block_index,     \* Rbd._compound_block_index
    blocks_stack,             \* blocks_stack of Rbd.serialize
    blocks,                   \* IsographEmitter._blocks
    nodes,                    \* IsographEmitter._nodes
    connections,              \* IsographEmitter._connections
    ids,                      \* IsographEmitter._ids
    commits,                  \* the number of calls of IsographEmitter.commit
    fm_row,                   \* a row of the FailureModels sheet
    fm_result                 \* the outcome of FailureModel(...) for fm_row

irvars == <<pc, error, component_list, logic_list, component_failures_list,
            components_index, raw_input_graph, g, components_graph, node_obj,
            failures_index, failures_graph, uses_templates>>

rbdvars == <<cur, sg, compound_block_index, blocks_stack>>

emvars == <<blocks, nodes, connections, ids, commits>>

fmvars == <<fm_row, fm_result>>

vars == <<irvars, rbdvars, emvars, fmvars>>

\* what the loader and the graph resolver leave alone
ir_rest == <<fmvars, rbdvars, emvars, failures_index, failures_graph,
             uses_templates>>

\* what the steps that follow the graph resolver leave alone
load_rest == <<fmvars, rbdvars, emvars>>

\* what the exporter leaves alone of the translator's structures
rows_rest == <<fmvars, component_list, logic_list, component_failures_list,
               components_index, raw_input_graph, g, failures_index,
               failures_graph, uses_templates>>

(***************************************************************************)
(* Bounds of the model.                                                    *)
(***************************************************************************)
MaxComponentRows == 4
MaxLogicRows == 1
MaxAssignRows == 1

\* the loop of the graph resolver is followed as long as no label has more
\* tokens than this; the labels of a hierarchy of dot-free names stay below
MaxLabelTokens == 7

Names == {"A", "T", "X"}
Codes == {<<"c1">>, <<"c2">>}
ROOT == <<"ROOT">>

\* The empty graph and the value of a graph attribute that is still None.
NoGraph == [nodes |-> {}, edges |-> {}]

\* no node; no spec graph
NoNode == <<>>
NoSpecGraph ==
    [nodes |-> {}, edges |-> {}, obj |-> <<>>, diagram |-> <<>>, hint |-> <<>>]

\* ElementLogic objects; NoLogic stands for the attribute value None.
NoLogic == [name |-> "none", voting |-> 0, total |-> 0]
NoModel == "none"

\* the values of the failure model variables outside FailureModel(...)
NoRow == [distribution |-> "none", parameters |-> <<>>]
NotBuilt == [state |-> "none", error |-> "none", parameters |-> <<>>]

(***************************************************************************)
(* Generic graph helpers (networkx.DiGraph).                               *)
(***************************************************************************)
Succ(gr, n) == {e[2] : e \in {d \in gr.edges : d[1] = n}}
Pred(gr, n) == {e[1] : e \in {d \in gr.edges : d[2] = n}}
InDegree(gr, n) == Cardinality(Pred(gr, n))
OutDegree(gr, n) == Cardinality(Succ(gr, n))

RECURSIVE ReachFrom(_, _, _)
ReachFrom(gr, seen, frontier) ==
    IF frontier = {} THEN seen
    ELSE LET nxt == UNION {Succ(gr, n) : n \in frontier} \ (seen \cup frontier)
         IN  ReachFrom(gr, seen \cup frontier, nxt)

\* nx.dfs_preorder_nodes(g, v) / the nodes visited by nx.bfs_edges(g, v)
Descendants(gr, v) == ReachFrom(gr, {}, {v})

RECURSIVE DepthFrom(_, _, _, _, _)
DepthFrom(gr, seen, frontier, target, d) ==
    IF target \in frontier THEN d
    ELSE IF frontier = {} THEN -1
    ELSE LET nxt == UNION {Succ(gr, n) : n \in frontier} \ (seen \cup frontier)
         IN  DepthFrom(gr, seen \cup frontier, nxt, target, d + 1)

\* nx.shortest_path_length(g, root, v)
Depth(gr, root, v) == DepthFrom(gr, {}, {root}, v, 0)

\* a slip: only loops of one edge are looked for
IsDAG_selfloops(gr) == \A n \in gr.nodes : n \notin Succ(gr, n)

\* nx.is_directed_acyclic_graph
IsDAG(gr) == \A n \in gr.nodes : n \notin ReachFrom(gr, {}, Succ(gr, n))

AddEdge(gr, u, v) ==
    [nodes |-> gr.nodes \cup {u, v}, edges |-> gr.edges \cup {<<u, v>>}]

RemoveNodes(gr, S) ==
    [nodes |-> gr.nodes \ S,
     edges |-> {e \in gr.edges : e[1] \notin S /\ e[2] \notin S}]

\* G.subgraph(nbunch): the induced sub-graph, a new graph object
Subgraph(gr, S) ==
    [nodes |-> gr.nodes \cap S,
     edges |-> {e \in gr.edges : e[1] \in S /\ e[2] \in S}]

(***************************************************************************)
(* translator/ir.py                                                        *)
(***************************************************************************)
is_template_def(row) == row.parent = "*"

is_component(row) == row.type \in {"basic", "compound", "group"}

is_failure(row) == row.type \in {"failurenode", "failureevent"}

\* check_templates(row_container)
check_templates(rows) ==
    /\ \E r \in rows : is_template_def(r)
    /\ {r.name : r \in {x \in rows : is_template_def(x)}}
          \cap {r.name : r \in {x \in rows : ~is_template_def(x)}} # {}

component_basename(node) == node[Len(node)]

\* SystemElement(type, name, parent, code, instances)
SystemElement(row) ==
    [type |-> row.type, name |-> <<row.name>>, parent |-> row.parent,
     code |-> row.code, instances |-> row.instances, description |-> <<>>,
     logic |-> NoLogic, failure_model |-> NoModel]

\* ElementLogic(raw_string): raw is the tuple of the tokens of "NAME(k,n)"
ElementLogic(raw) ==
    [name |-> raw[1],
     voting |-> IF Len(raw) > 1 THEN raw[2] ELSE 0,
     total |-> IF Len(raw) > 2 THEN raw[3] ELSE 0]

\* the failure models the input defines (FailureModels sheet)
failure_models_index == {"fm1"}

IndexKeys ==
    {<<r.name, r.parent>> : r \in {x \in component_list :
                                      is_component(x) /\ ~is_template_def(x)}}

RowOfKey(k) ==
    CHOOSE r \in component_list :
        is_component(r) /\ r.name = k[1] /\ r.parent = k[2]

LogicFor(name) ==
    IF \E l \in logic_list : l.type = "inherited" /\ l.component = name
    THEN ElementLogic((CHOOSE l \in logic_list :
                          l.type = "inherited" /\ l.component = name).logic)
    ELSE NoLogic

ModelFor(name) ==
    IF \E a \in component_failures_list :
           a.component = name /\ a.failuremodel \in failure_models_index
    THEN (CHOOSE a \in component_failures_list :
              a.component = name /\ a.failuremodel \in failure_models_index
         ).failuremodel
    ELSE NoModel

\* a slip: the logic and the model reach only the entries below ROOT
IndexEntry_first(k) ==
    [SystemElement(RowOfKey(k)) EXCEPT
        !.logic = IF k[2] = "ROOT" THEN LogicFor(k[1]) ELSE NoLogic,
        !.failure_model = IF k[2] = "ROOT" THEN ModelFor(k[1]) ELSE NoModel]

\* the element of the index entry (name, parent) when _build_indexes returns
IndexEntry(k) ==
    [SystemElement(RowOfKey(k)) EXCEPT !.logic = LogicFor(k[1]),
                                       !.failure_model = ModelFor(k[1])]

BuiltIndex == [k \in IndexKeys |-> IndexEntry(k)]

\* the rows that _build_indexes puts into the failures index
FailureRows ==
    {r \in component_list :
        ~(is_component(r) /\ ~is_template_def(r)) /\ is_failure(r)}

FailureLogicFor(name) ==
    IF \E l \in logic_list : l.type # "inherited" /\ l.component = name
    THEN ElementLogic((CHOOSE l \in logic_list :
                          l.type # "inherited" /\ l.component = name).logic)
    ELSE NoLogic

BuiltFailuresIndex ==
    [n \in {r.name : r \in FailureRows} |->
        [SystemElement(CHOOSE r \in FailureRows : r.name = n)
            EXCEPT !.logic = FailureLogicFor(n)]]

\* a logic row of a failure names an entry of the failures index
LogicRowsResolve ==
    \A l \in logic_list :
        l.type # "inherited" => l.component \in {r.name : r \in FailureRows}

\* the names of the input that hold a dot, with their tokens
NameTokens == ("Q.A" :> <<"Q", "A">>)

\* name.split('.')
split(name) ==
    IF name \in DOMAIN NameTokens THEN NameTokens[name] ELSE <<name>>

\* the graph of the (parent, name) edges of the non-template component rows
RawGraphOf(rows) ==
    LET es == {<<split(r.parent), split(r.name)>> :
                  r \in {x \in rows : is_component(x) /\ ~is_template_def(x)}}
    IN  [nodes |-> {e[1] : e \in es} \cup {e[2] : e \in es}, edges |-> es]

\* relabel(old_label, node) of _build_components_graph
relabel(old_label, node) ==
    SubSeq(old_label, 1, Len(old_label) - 1)
        \o <<node[Len(node)]>> \o <<old_label[Len(old_label)]>>

\* a slip: only nodes with more than two parents count as shared
SharedNodes_gt2(gr) ==
    {v \in Descendants(gr, ROOT) \ {ROOT} : InDegree(gr, v) > 2}

\* the nodes v reached by nx.bfs_edges(g, 'ROOT') with in_degree(v) > 1
SharedNodes(gr) ==
    {v \in Descendants(gr, ROOT) \ {ROOT} : InDegree(gr, v) > 1}

FirstShared(gr) ==
    {v \in SharedNodes(gr) :
        \A w \in SharedNodes(gr) : Depth(gr, ROOT, v) <= Depth(gr, ROOT, w)}

\* one pass of the body of the fixed-point loop for the shared node v
CloneAndReattach(gr, v) ==
    LET predecessors == Pred(gr, v)
        g1 == [gr EXCEPT !.edges = {e \in gr.edges : e[2] # v}]
        sub_graph == Subgraph(g1, {v} \cup Descendants(g1, v))
        g2 == RemoveNodes(g1, sub_graph.nodes)
        newEdges ==
            UNION {{<<p, relabel(v, p)>>}
                     \cup {<<relabel(e[1], p), relabel(e[2], p)>> :
                              e \in sub_graph.edges} : p \in predecessors}
    IN  [nodes |-> g2.nodes \cup {e[1] : e \in newEdges}
                            \cup {e[2] : e \in newEdges},
         edges |-> g2.edges \cup newEdges]

(***************************************************************************)
(* The loader fills the row container, one row at a time.                  *)
(***************************************************************************)
ComponentRows ==
    [type : {"compound"}, name : Names, parent : Names \cup {"ROOT", "*"},
     code : Codes, instances : {1}]

AddComponentRow ==
    /\ pc = "load"
    /\ Cardinality(component_list) < MaxComponentRows
    /\ \E row \in ComponentRows :
          /\ row.name # row.parent
          /\ is_template_def(row) => row.code = <<"c1">>
          /\ \A r \in component_list :
                ~(r.name = row.name /\ r.parent = row.parent)
          /\ component_list' = component_list \cup {row}
    /\ UNCHANGED <<ir_rest, pc, error, logic_list, component_failures_list,
                   components_index, raw_input_graph, g, components_graph,
                   node_obj>>

AddLogicRow ==
    /\ pc = "load"
    /\ Cardinality(logic_list) < MaxLogicRows
    /\ \E c \in Names, l \in {<<"active", 1, 2>>} :
          /\ \A r \in logic_list : r.component # c
          /\ logic_list' = logic_list \cup
                 {[type |-> "inherited", component |-> c, logic |-> l]}
    /\ UNCHANGED <<ir_rest, pc, error, component_list, component_failures_list,
                   components_index, raw_input_graph, g, components_graph,
                   node_obj>>

AddComponentFailureRow ==
    /\ pc = "load"
    /\ Cardinality(component_failures_list) < MaxAssignRows
    /\ \E c \in Names, m \in {"fm1"} :
          /\ \A r \in component_failures_list : r.component # c
          /\ component_failures_list' = component_failures_list \cup
                 {[component |-> c, failuremodel |-> m]}
    /\ UNCHANGED <<ir_rest, pc, error, component_list, logic_list, components_index,
                   raw_input_graph, g, components_graph, node_obj>>

(***************************************************************************)
(* IRContainer.load_from_rows                                              *)
(***************************************************************************)
BuildIndexes ==
    /\ pc = "load"
    /\ uses_templates' = check_templates(component_list)
    /\ IF LogicRowsResolve
       THEN /\ components_index' = BuiltIndex
            /\ failures_index' = BuiltFailuresIndex
            /\ pc' = "raw"
            /\ error' = error
       ELSE /\ pc' = "failed"
            /\ error' = "KeyError"
            /\ UNCHANGED <<components_index, failures_index>>
    /\ UNCHANGED <<load_rest, failures_graph, component_list, logic_list,
                   component_failures_list, raw_input_graph, g,
                   components_graph, node_obj>>

BuildRawInputComponentGraph ==
    /\ pc = "raw"
    /\ raw_input_graph' = RawGraphOf(component_list)
    /\ IF IsDAG(raw_input_graph')
       THEN /\ pc' = IF ROOT \in raw_input_graph'.nodes
                     THEN "resolve" ELSE "failed"
            /\ error' = IF ROOT \in raw_input_graph'.nodes
                        THEN "none" ELSE "NetworkXError"
            /\ g' = IF ROOT \in raw_input_graph'.nodes
                    THEN raw_input_graph' ELSE g
       ELSE /\ pc' = "failed"
            /\ error' = "TranslatorError"
            /\ g' = g
    /\ UNCHANGED <<ir_rest, component_list, logic_list, component_failures_list,
                   components_index, components_graph, node_obj>>

ResolveStep ==
    /\ pc = "resolve"
    /\ \E v \in FirstShared(g) : g' = CloneAndReattach(g, v)
    /\ \A n \in g'.nodes : Len(n) <= MaxLabelTokens
    /\ UNCHANGED <<ir_rest, pc, error, component_list, logic_list,
                   component_failures_list, components_index, raw_input_graph,
                   components_graph, node_obj>>

ResolveDone ==
    /\ pc = "resolve"
    /\ SharedNodes(g) = {}
    /\ components_graph' = g
    /\ pc' = "failures"
    /\ UNCHANGED <<ir_rest, error, component_list, logic_list, component_failures_list,
                   components_index, raw_input_graph, g, node_obj>>

\* the node of the failures graph of an element: '{type}_{name}'
FailureId(type, name) == <<type, name>>

\* the parent of a failure node is looked up by name in the components index
ParentKeys(element) == {k \in DOMAIN components_index : k[1] = element.parent}

ParentResolves(element) ==
    IF element.type = "failurenode"
    THEN ParentKeys(element) # {}
    ELSE element.parent \in DOMAIN failures_index

\* next(filter(filter_parent, self._components_index.items())): the entry
\* that the iteration of the index meets first, for every parent name of a
\* failure node.  The index is an OrderedDict in the order of the rows, which
\* component_list, a set, leaves open: any entry of that name can come first
FirstMatches ==
    LET parents == {failures_index[n].parent :
                       n \in {m \in DOMAIN failures_index :
                                 failures_index[m].type = "failurenode"}}
    IN  {first \in [parents -> DOMAIN components_index] :
            \A p \in parents : first[p][1] = p}

ParentType(element, first) ==
    IF element.type = "failurenode"
    THEN components_index[first[element.parent]].type
    ELSE failures_index[element.parent].type

\* a slip: the parent's node is named with the type of the entry itself
BuiltFailuresGraph_own_type(first) ==
    LET es == {<<FailureId(failures_index[n].type, failures_index[n].parent),
                 FailureId(failures_index[n].type, n)>> :
                  n \in DOMAIN failures_index}
    IN  [nodes |-> {e[1] : e \in es} \cup {e[2] : e \in es}, edges |-> es]

BuiltFailuresGraph(first) ==
    LET es == {<<FailureId(ParentType(failures_index[n], first),
                           failures_index[n].parent),
                 FailureId(failures_index[n].type, n)>> :
                  n \in DOMAIN failures_index}
    IN  [nodes |-> {e[1] : e \in es} \cup {e[2] : e \in es}, edges |-> es]

BuildFailuresGraph ==
    /\ pc = "failures"
    /\ IF \A n \in DOMAIN failures_index : ParentResolves(failures_index[n])
       THEN /\ \E first \in FirstMatches :
                  failures_graph' = BuiltFailuresGraph(first)
            /\ pc' = "assign"
            /\ error' = error
       ELSE /\ pc' = "failed"
            /\ error' = "TranslatorError"
            /\ failures_graph' = failures_graph
    /\ UNCHANGED <<load_rest, component_list, logic_list,
                   component_failures_list, components_index, failures_index,
                   uses_templates, raw_input_graph, g, components_graph,
                   node_obj>>

RootElement ==
    [type |-> "compound", name |-> ROOT, parent |-> "none", code |-> <<"ROOT">>,
     instances |-> 1, description |-> <<>>,
     logic |-> ElementLogic(<<"root">>), failure_model |-> NoModel]

TreeParent(gr, v) == CHOOSE u \in Pred(gr, v) : u \in Descendants(gr, ROOT)

AssignedObjects(gr) ==
    [v \in Descendants(gr, ROOT) |->
        IF v = ROOT THEN RootElement
        ELSE [components_index[<<component_basename(v),
                                 component_basename(TreeParent(gr, v))>>]
                 EXCEPT !.name = v]]

\* the keys (vb, ub) that the loop over nx.bfs_edges(g, 'ROOT') looks up
AssignKeys(gr) ==
    {<<component_basename(v), component_basename(TreeParent(gr, v))>> :
        v \in Descendants(gr, ROOT) \ {ROOT}}

\* self._components_index[(vb, ub)] raises KeyError for a key that is missing
AssignRaises(gr) == \E k \in AssignKeys(gr) : k \notin DOMAIN components_index

AssignObjects ==
    /\ pc = "assign"
    /\ IF AssignRaises(components_graph)
       THEN /\ pc' = "failed"
            /\ error' = "KeyError"
            /\ node_obj' = node_obj
       ELSE /\ node_obj' = AssignedObjects(components_graph)
            /\ pc' = "loaded"
            /\ error' = error
    /\ UNCHANGED <<load_rest, failures_index, failures_graph, uses_templates,
                   component_list, logic_list, component_failures_list,
                   components_index, raw_input_graph, g, components_graph>>

Translate ==
    /\ pc = "loaded"
    /\ pc' = "export"
    /\ UNCHANGED <<load_rest, failures_index, failures_graph, uses_templates,
                   error, component_list, logic_list, component_failures_list,
                   components_index, raw_input_graph, g, components_graph,
                   node_obj>>

InitIR ==
    /\ pc = "load"
    /\ error = "none"
    /\ component_list = {}
    /\ logic_list = {}
    /\ component_failures_list = {}
    /\ components_index = <<>>
    /\ raw_input_graph = NoGraph
    /\ g = NoGraph
    /\ components_graph = NoGraph
    /\ node_obj = <<>>
    /\ failures_index = <<>>
    /\ failures_graph = NoGraph
    /\ uses_templates = FALSE
    /\ cur = NoNode
    /\ sg = NoSpecGraph
    /\ compound_block_index = <<>>
    /\ blocks_stack = <<>>
    /\ blocks = <<>>
    /\ nodes = <<>>
    /\ connections = {}
    /\ ids = <<>>
    /\ commits = 0
    /\ fm_row = NoRow
    /\ fm_result = NotBuilt

NextIR ==
    \/ AddComponentRow
    \/ AddLogicRow
    \/ AddComponentFailureRow
    \/ BuildIndexes
    \/ BuildRawInputComponentGraph
    \/ ResolveStep
    \/ ResolveDone
    \/ BuildFailuresGraph
    \/ AssignObjects
    \/ Translate

SpecIR == InitIR /\ [][NextIR]_vars

(***************************************************************************)
(* The graph resolver alone, on every hierarchy of a few component rows.   *)
(* The translation is one sequential run, so that the while loop of        *)
(* _build_components_graph runs on as long as it can.                      *)
(***************************************************************************)
MaxHierarchyRows == 5

HierarchyNames == {"A", "B", "X", "Q.A"}

HierarchyRows ==
    {r \in [type : {"compound"}, name : HierarchyNames,
            parent : HierarchyNames \cup {"ROOT"}, code : {<<"c1">>},
            instances : {1}] : r.name # r.parent}

InitResolve ==
    /\ component_list \in {rows \in SUBSET HierarchyRows :
                              Cardinality(rows) <= MaxHierarchyRows}
    /\ pc = "load"
    /\ error = "none"
    /\ logic_list = {}
    /\ component_failures_list = {}
    /\ components_index = <<>>
    /\ raw_input_graph = NoGraph
    /\ g = NoGraph
    /\ components_graph = NoGraph
    /\ node_obj = <<>>
    /\ failures_index = <<>>
    /\ failures_graph = NoGraph
    /\ uses_templates = FALSE
    /\ cur = NoNode
    /\ sg = NoSpecGraph
    /\ compound_block_index = <<>>
    /\ blocks_stack = <<>>
    /\ blocks = <<>>
    /\ nodes = <<>>
    /\ connections = {}
    /\ ids = <<>>
    /\ commits = 0
    /\ fm_row = NoRow
    /\ fm_result = NotBuilt

NextResolve ==
    \/ BuildIndexes
    \/ BuildRawInputComponentGraph
    \/ ResolveStep
    \/ ResolveDone

SpecResolve ==
    /\ InitResolve
    /\ [][NextResolve]_vars
    /\ WF_vars(ResolveStep)
    /\ WF_vars(ResolveDone)

(***************************************************************************)
(* The failures graph, on a fixed hierarchy and every choice of a few      *)
(* FailureNode and FailureEvent rows.  The name X is that of a Basic under *)
(* A and of a Compound under B; M is the name of no row.                   *)
(***************************************************************************)
MaxFailureRows == 2

FailureNames == {"F1", "F2", "F3"}

HierarchyOfFailures ==
    {[type |-> "compound", name |-> "A", parent |-> "ROOT", code |-> <<"a">>,
      instances |-> 1],
     [type |-> "compound", name |-> "B", parent |-> "ROOT", code |-> <<"b">>,
      instances |-> 1],
     [type |-> "basic", name |-> "X", parent |-> "A", code |-> <<"x">>,
      instances |-> 1],
     [type |-> "compound", name |-> "X", parent |-> "B", code |-> <<"x">>,
      instances |-> 1]}

FailureDefinitionRows ==
    [type : {"failurenode", "failureevent"}, name : FailureNames,
     parent : {"A", "X", "M"} \cup FailureNames, code : {<<>>},
     instances : {1}]

\* the sets of at most k failure rows with names of their own
RECURSIVE FailureRowSets(_)
FailureRowSets(k) ==
    IF k = 0 THEN {{}}
    ELSE LET prev == FailureRowSets(k - 1)
         IN  prev \cup
             UNION {{fs \cup {r} :
                        r \in {x \in FailureDefinitionRows :
                                  \A y \in fs : y.name # x.name}} :
                      fs \in prev}

InitFailures ==
    /\ \E fs \in FailureRowSets(MaxFailureRows) :
          component_list = HierarchyOfFailures \cup fs
    /\ pc = "load"
    /\ error = "none"
    /\ logic_list = {}
    /\ component_failures_list = {}
    /\ components_index = <<>>
    /\ raw_input_graph = NoGraph
    /\ g = NoGraph
    /\ components_graph = NoGraph
    /\ node_obj = <<>>
    /\ failures_index = <<>>
    /\ failures_graph = NoGraph
    /\ uses_templates = FALSE
    /\ cur = NoNode
    /\ sg = NoSpecGraph
    /\ compound_block_index = <<>>
    /\ blocks_stack = <<>>
    /\ blocks = <<>>
    /\ nodes = <<>>
    /\ connections = {}
    /\ ids = <<>>
    /\ commits = 0
    /\ fm_row = NoRow
    /\ fm_result = NotBuilt

NextFailures ==
    \/ BuildIndexes
    \/ BuildRawInputComponentGraph
    \/ ResolveStep
    \/ ResolveDone
    \/ BuildFailuresGraph

SpecFailures == InitFailures /\ [][NextFailures]_vars

(***************************************************************************)
(* translator/entities.py: FailureModel.  A parameter string is a sequence *)
(* of characters; "d" stands for a decimal digit and "x" for any character *)
(* that is neither a digit, a comma nor a colon.                           *)
(***************************************************************************)
MaxChunks == 5

Triple == <<"d", ",", "d", ",", "d">>
Chunks == {<<"d">>, <<",">>, <<":">>, <<"x">>, Triple}

RECURSIVE Flatten(_)
Flatten(ss) == IF ss = <<>> THEN <<>> ELSE Head(ss) \o Flatten(Tail(ss))

RECURSIVE ChunkSeqs(_)
ChunkSeqs(n) ==
    IF n = 0 THEN {<<>>}
    ELSE LET shorter == ChunkSeqs(n - 1)
         IN  shorter \cup {Append(q, c) : q \in shorter, c \in Chunks}

ParameterStrings == {Flatten(q) : q \in ChunkSeqs(MaxChunks)}

Distributions == {"exponential", "weibull", "bi-weibull", "tri-weibull"}

\* the end of the longest run of digits of s that starts at position i
RECURSIVE DigitsEnd(_, _)
DigitsEnd(s, i) ==
    IF i <= Len(s) /\ s[i] = "d" THEN DigitsEnd(s, i + 1) ELSE i

\* re.match(pattern, s): pat is the sequence of the items of the pattern,
\* "N" for [0-9]+; the match is anchored at the start of s only
RECURSIVE MatchAt(_, _, _)
MatchAt(pat, s, i) ==
    IF pat = <<>> THEN TRUE
    ELSE IF Head(pat) = "N"
         THEN DigitsEnd(s, i) > i /\ MatchAt(Tail(pat), s, DigitsEnd(s, i))
         ELSE i <= Len(s) /\ s[i] = Head(pat) /\ MatchAt(Tail(pat), s, i + 1)

re_match(pat, s) == MatchAt(pat, s, 1)

TriplePattern == <<"N", ",", "N", ",", "N">>

\* the regular expressions of _parse_parameters
PatternOf(distribution) ==
    CASE distribution = "exponential" -> <<"N">>
      [] distribution = "weibull" -> TriplePattern
      [] distribution = "bi-weibull" -> TriplePattern \o <<":">> \o TriplePattern
      [] distribution = "tri-weibull" ->
            TriplePattern \o <<":">> \o TriplePattern \o <<":">> \o TriplePattern

\* str.split(sep)
RECURSIVE Split(_, _)
Split(s, sep) ==
    IF \E i \in 1..Len(s) : s[i] = sep
    THEN LET i == CHOOSE k \in 1..Len(s) :
                      s[k] = sep /\ \A j \in 1..(k - 1) : s[j] # sep
         IN  <<SubSeq(s, 1, i - 1)>> \o Split(SubSeq(s, i + 1, Len(s)), sep)
    ELSE <<s>>

\* int(s) succeeds on a string of digits
IsInt(s) == Len(s) > 0 /\ \A i \in 1..Len(s) : s[i] = "d"

\* FailureModel(name, distribution, parameter_spec, ...)
FailureModel(distribution, parameters) ==
    IF ~re_match(PatternOf(distribution), parameters)
    THEN [state |-> "raised", error |-> "TranslatorError", parameters |-> <<>>]
    ELSE CASE distribution = "exponential" ->
                IF IsInt(parameters)
                THEN [state |-> "built", error |-> "none",
                      parameters |-> <<(<<parameters>>)>>]
                ELSE [state |-> "raised", error |-> "ValueError",
                      parameters |-> <<>>]
           [] distribution = "weibull" ->
                [state |-> "built", error |-> "none",
                 parameters |-> <<Split(parameters, ",")>>]
           [] OTHER ->
                [state |-> "built", error |-> "none",
                 parameters |->
                    [i \in 1..Len(Split(parameters, ":")) |->
                        Split(Split(parameters, ":")[i], ",")]]

ConstructFailureModel ==
    /\ fm_result.state = "none"
    /\ fm_result' = FailureModel(fm_row.distribution, fm_row.parameters)
    /\ UNCHANGED <<fm_row, irvars, rbdvars, emvars>>

InitFM ==
    /\ fm_row \in [distribution : Distributions, parameters : ParameterStrings]
    /\ fm_result = NotBuilt
    /\ pc = "load"
    /\ error = "none"
    /\ component_list = {}
    /\ logic_list = {}
    /\ component_failures_list = {}
    /\ components_index = <<>>
    /\ raw_input_graph = NoGraph
    /\ g = NoGraph
    /\ components_graph = NoGraph
    /\ node_obj = <<>>
    /\ failures_index = <<>>
    /\ failures_graph = NoGraph
    /\ uses_templates = FALSE
    /\ cur = NoNode
    /\ sg = NoSpecGraph
    /\ compound_block_index = <<>>
    /\ blocks_stack = <<>>
    /\ blocks = <<>>
    /\ nodes = <<>>
    /\ connections = {}
    /\ ids = <<>>
    /\ commits = 0

NextFM == ConstructFailureModel

SpecFM == InitFM /\ [][NextFM]_vars

(***************************************************************************)
(* exporter/isograph/rbd.py: the elements of a block diagram.              *)
(*                                                                         *)
(* A code is the sequence of the pieces of its text; the piece "[X]" is    *)
(* the instance placeholder.  An instance number 0 stands for None, and so *)
(* does a vote value 0.  The layout of a diagram (pydot coordinates) is    *)
(* not modelled.                                                           *)
(***************************************************************************)
MaxInstances == 2

Digits ==
    <<"0", "1", "2", "3", "4", "5", "6", "7", "8", "9", "10", "11", "12",
      "13", "14", "15", "16", "17", "18", "19", "20", "21", "22", "23", "24",
      "25", "26", "27", "28", "29", "30", "31", "32">>

\* str(n)
Str(n) == Digits[n + 1]

RECURSIVE StrAll(_)
StrAll(ns) == IF ns = <<>> THEN <<>> ELSE <<Str(Head(ns))>> \o StrAll(Tail(ns))

Range(f) == {f[i] : i \in DOMAIN f}

\* the orders in which the members of S can be iterated
RECURSIVE Perms(_)
Perms(S) ==
    IF S = {} THEN {<<>>}
    ELSE UNION {{<<x>> \o q : q \in Perms(S \ {x})} : x \in S}

\* a slip: a sequence of one item yields no window
Window_unpadded(seq, none) ==
    IF Len(seq) < 2 THEN <<>>
    ELSE [i \in 1..(Len(seq) - 1) |-> <<seq[i], seq[i + 1]>>]

\* sliding_window.window(seq, 2): the pairs of consecutive items, the last
\* window of a sequence of one item being padded with None
Window(seq, none) ==
    IF Len(seq) = 0 THEN <<>>
    ELSE IF Len(seq) = 1 THEN <<(<<seq[1], none>>)>>
    ELSE [i \in 1..(Len(seq) - 1) |-> <<seq[i], seq[i + 1]>>]

\* parse_code(c)
RECURSIVE ReplacePiece(_, _, _)
ReplacePiece(c, old, new) ==
    IF c = <<>> THEN <<>>
    ELSE <<(IF Head(c) = old THEN new ELSE Head(c))>>
             \o ReplacePiece(Tail(c), old, new)

parse_code(c) ==
    IF Cardinality({i \in DOMAIN c : c[i] = "[X]"}) = 1
    THEN ReplacePiece(c, "[X]", "{instance}")
    ELSE c

RECURSIVE Text(_)
Text(c) == IF c = <<>> THEN "" ELSE Head(c) \o Text(Tail(c))

\* code.format(instance=instance)
Format(code, instance) == Text(ReplacePiece(code, "{instance}", Str(instance)))

\* logic_to_standby_mode(logic)
logic_to_standby_mode(logic) ==
    IF logic.name = "active" THEN "Hot"
    ELSE IF logic.name = "standby" THEN "Cold"
    ELSE "none"

\* _RbdBlock(name, code, type, description, instance, standby_mode,
\*           failure_model), from the keyword arguments built for element vo
RbdBlock(vo, instance) ==
    [type |-> "Rbd block", name |-> vo.name, code |-> parse_code(vo.code),
     description |-> vo.description, instance |-> instance,
     standby_mode |-> "none", failure_model |-> vo.failure_model,
     vote_value |-> 0]

\* _RbdNode(name, vote_value)
RbdNode(name, vote_value) ==
    [type |-> "Rbd node", name |-> name, code |-> <<>>, description |-> <<>>,
     instance |-> 0, standby_mode |-> "none", failure_model |-> NoModel,
     vote_value |-> vote_value]

\* the value None where an element is expected
NoElement ==
    [type |-> "None", name |-> <<"None">>, code |-> <<>>, description |-> <<>>,
     instance |-> 0, standby_mode |-> "none", failure_model |-> NoModel,
     vote_value |-> 0]

\* _RbdBlock.id, _RbdNode.id
ElementId(o) ==
    IF o.instance # 0 THEN o.name \o <<Str(o.instance)>> ELSE o.name

(***************************************************************************)
(* Diagrams: nx.DiGraph with the 'obj' attribute of its nodes.             *)
(***************************************************************************)
EmptyDiagram == [nodes |-> {}, edges |-> {}, obj |-> <<>>]

\* graph.add_node(n, obj=o)
AddNodeObj(d, n, o) ==
    [nodes |-> d.nodes \cup {n}, edges |-> d.edges, obj |-> (n :> o) @@ d.obj]

\* graph.add_edge(u, v): nodes that are missing are added without attributes
AddDiagramEdge(d, u, v) ==
    [nodes |-> d.nodes \cup {u, v}, edges |-> d.edges \cup {<<u, v>>},
     obj |-> d.obj]

RECURSIVE AddDiagramEdges(_, _)
AddDiagramEdges(d, es) ==
    IF es = {} THEN d
    ELSE LET e == CHOOSE x \in es : TRUE
         IN  AddDiagramEdges(AddDiagramEdge(d, e[1], e[2]), es \ {e})

\* the node whose key is an _RbdNode object instead of its id
ObjectKey(o) == <<"<_RbdNode object>">> \o o.name

\* finalize_graph(graph) inside the compound block called name
finalize_graph(graph, name) ==
    LET entry_points == {x \in graph.nodes : InDegree(graph, x) = 0}
        exit_points == {x \in graph.nodes : OutDegree(graph, x) = 0}
        entry_node == RbdNode(name \o <<"__ENTRY_POINT">>, 0)
        exit_node == RbdNode(name \o <<"__EXIT_POINT">>, 0)
        g1 == IF Cardinality(entry_points) > 1
              THEN AddDiagramEdges(
                       AddNodeObj(graph, ElementId(entry_node), entry_node),
                       {<<ElementId(entry_node), x>> : x \in entry_points})
              ELSE graph
    IN  IF Cardinality(exit_points) > 1
        THEN AddDiagramEdges(
                 AddNodeObj(g1, ObjectKey(exit_node), exit_node),
                 {<<x, ElementId(exit_node)>> : x \in exit_points})
        ELSE g1

(***************************************************************************)
(* _CompoundBlock.generate_internal_graph for a compound without Groups.   *)
(***************************************************************************)
\* the blocks that enumerate_blocks yields for one child
BlocksOf(vo) ==
    IF vo.instances > 1
    THEN [i \in 1..vo.instances |-> RbdBlock(vo, i)]
    ELSE <<RbdBlock(vo, 0)>>

\* enumerate_blocks(root): order is the order in which nx.bfs_edges visits
\* the children of root
RECURSIVE enumerate_blocks(_, _)
enumerate_blocks(s, order) ==
    IF order = <<>> THEN <<>>
    ELSE BlocksOf(s.obj[Head(order)]) \o enumerate_blocks(s, Tail(order))

\* the loop over window(enumerate_blocks(root)) of the And wiring
RECURSIVE SeriesWiring(_, _)
SeriesWiring(ig, ws) ==
    IF ws = <<>> THEN ig
    ELSE LET b1 == Head(ws)[1]
             b2 == Head(ws)[2]
             i1 == AddNodeObj(ig, ElementId(b1), b1)
         IN  SeriesWiring(
                 IF b2 = NoElement THEN i1
                 ELSE AddDiagramEdge(AddNodeObj(i1, ElementId(b2), b2),
                                     ElementId(b1), ElementId(b2)),
                 Tail(ws))

\* the loop over enumerate_blocks(root) of the Or/Active/Standby wiring
RECURSIVE ParallelWiring(_, _, _, _, _)
ParallelWiring(ig, bs, node_in, node_out, logic) ==
    IF bs = <<>> THEN ig
    ELSE LET b == [Head(bs) EXCEPT
                      !.standby_mode = logic_to_standby_mode(logic)]
             i1 == AddNodeObj(ig, ElementId(b), b)
             i2 == AddDiagramEdge(i1, ElementId(node_in), ElementId(b))
             i3 == AddDiagramEdge(i2, ElementId(b), ElementId(node_out))
         IN  ParallelWiring(i3, Tail(bs), node_in, node_out, logic)

\* as claimed: the In junction carries the vote of the logic, too
InVote_k(logic) == IF logic.name = "or" THEN 0 ELSE logic.voting

\* the vote of the In junction of a parallel wiring
InVote(logic) == 0

\* the diagram of the else clause of generate_internal_graph, not finalized
UngroupedDiagram(s, root, name, order) ==
    LET logic == s.obj[root].logic
        bs == enumerate_blocks(s, order)
    IN  IF logic.name \in {"and", "root"}
        THEN SeriesWiring(EmptyDiagram, Window(bs, NoElement))
        ELSE IF logic.name \in {"or", "active", "standby"}
        THEN LET vote_val == IF logic.name = "or" THEN 0 ELSE logic.voting
                 node_in == RbdNode(name \o <<"In">>, InVote(logic))
                 node_out == RbdNode(name \o <<"Out">>, vote_val)
                 i1 == AddNodeObj(EmptyDiagram, ElementId(node_in), node_in)
                 i2 == AddNodeObj(i1, ElementId(node_out), node_out)
             IN  ParallelWiring(i2, bs, node_in, node_out, logic)
        ELSE EmptyDiagram

(***************************************************************************)
(* Rbd._construct_compound_blocks                                          *)
(***************************************************************************)
is_type(o, type_str) == o.type = type_str

\* extract_subgraph(node): the edges that nx.bfs_edges reaches from node,
\* without those into a descendant of a compound visited before (fringe)
extract_subgraph(node) ==
    LET reached == Descendants(components_graph, node)
        fringe(dst) ==
            {c \in reached \ {node, dst} :
                /\ c \in DOMAIN node_obj
                /\ is_type(node_obj[c], "compound")
                /\ dst \in Descendants(components_graph, c)}
        es == {e \in components_graph.edges :
                  e[1] \in reached /\ fringe(e[2]) = {}}
        ns == {e[1] : e \in es} \cup {e[2] : e \in es}
    IN  [nodes |-> ns, edges |-> es,
         obj |-> [n \in ns \cap DOMAIN node_obj |-> node_obj[n]],
         diagram |-> <<>>,
         hint |-> [n \in ns |-> "none"]]

\* the nodes of the weakly connected component of n
RECURSIVE WeakReach(_, _, _)
WeakReach(gr, seen, frontier) ==
    IF frontier = {} THEN seen
    ELSE LET nxt == UNION {Succ(gr, n) \cup Pred(gr, n) : n \in frontier}
                        \ (seen \cup frontier)
         IN  WeakReach(gr, seen \cup frontier, nxt)

\* nx.weakly_connected_components(gr)
WeakComponents(gr) == {WeakReach(gr, {}, {n}) : n \in gr.nodes}

\* extract_failures_subgraph(node); NoGraph stands for the result None
extract_failures_subgraph(node) ==
    LET ccs == {cc \in WeakComponents(failures_graph) :
                   \E root \in cc :
                      /\ InDegree(failures_graph, root) = 0
                      /\ <<root[2]>> = node}
    IN  IF ccs = {} THEN NoGraph
        ELSE Subgraph(failures_graph, CHOOSE cc \in ccs : TRUE)

\* the argument of extract_failures_subgraph for the compound n
FailuresKey(n) ==
    IF node_obj[n].description # <<>> THEN node_obj[n].description ELSE n

\* the first node of nx.topological_sort(g)
RbdRoots == {n \in components_graph.nodes : InDegree(components_graph, n) = 0}

\* the nodes visited by the loop of _construct_compound_blocks
Visited(root) == Descendants(components_graph, root)

HasGroup(s) == \E n \in s.nodes : is_type(s.obj[n], "group")

(***************************************************************************)
(* _CompoundBlock.generate_internal_graph for a compound with Groups.      *)
(* A step that can raise returns [error, ...]; error "none" is a return.   *)
(***************************************************************************)
\* the object of a node of the failures graph, None for the root of a tree
HasFailureObj(f, v) == InDegree(f, v) > 0

FailureObj(v) == failures_index[v[2]]

Leaves(s) == {x \in s.nodes : OutDegree(s, x) = 0}

\* what look_for_hint compares with the names of the failures
ToCompare(no) == IF no.description # <<>> THEN no.description ELSE no.name

\* the edges of f at which look_for_hint(n) finds the name of n
HintEdges(s, f, n) ==
    {e \in f.edges : ToCompare(s.obj[n]) = FailureObj(e[2]).name}

\* look_for_hint(n) raises when it reads the logic of the root of f
HintRaises(s, f, n) == \E e \in HintEdges(s, f, n) : ~HasFailureObj(f, e[1])

\* the hint that look_for_hint(n) leaves on n
look_for_hint(s, f, n) ==
    IF HintEdges(s, f, n) = {} THEN "none"
    ELSE LET e == CHOOSE x \in HintEdges(s, f, n) : TRUE
             logic == FailureObj(e[1]).logic
         IN  IF logic.name \in {"or", "active", "standby"} THEN "parallel"
             ELSE IF logic.name = "and" THEN "series"
             ELSE "none"

\* the loops of create_basic_diagram that add instance blocks to a diagram
RECURSIVE AddBlocks(_, _)
AddBlocks(d, bs) ==
    IF bs = <<>> THEN d
    ELSE AddBlocks(AddNodeObj(d, ElementId(Head(bs)), Head(bs)), Tail(bs))

\* create_basic_diagram(leaf)
create_basic_diagram(s, leaf) ==
    LET o == s.obj[leaf]
        logic == s.obj[CHOOSE p \in Pred(s, leaf) : TRUE].logic
        instance_blocks == [i \in 1..o.instances |-> RbdBlock(o, i)]
    IN  IF o.instances > 1
        THEN IF logic = NoLogic
             THEN AddBlocks(EmptyDiagram, instance_blocks)
             ELSE IF logic.name = "and"
             THEN SeriesWiring(EmptyDiagram,
                               Window(instance_blocks, NoElement))
             ELSE EmptyDiagram
        ELSE AddNodeObj(EmptyDiagram, ElementId(RbdBlock(o, 0)),
                        RbdBlock(o, 0))

\* the spec graph after the loop over the leaves
PrepareLeaves(s, f) ==
    [s EXCEPT
        !.diagram = [n \in Leaves(s) |-> create_basic_diagram(s, n)],
        !.hint = [n \in s.nodes |->
                     IF n \in Leaves(s) THEN look_for_hint(s, f, n)
                     ELSE s.hint[n]]]

\* the root of the spec graph
SpecRoots(s) == {x \in s.nodes : InDegree(s, x) = 0}

\* find_deepest_group(root): the groups a depth-first search can return
DeepestGroups(s, root) ==
    LET groups == {v \in Descendants(s, root) \ {root} :
                      is_type(s.obj[v], "group")}
    IN  {v \in groups :
            \A w \in groups : Depth(s, root, w) <= Depth(s, root, v)}

\* graph.remove_nodes_from(S) on the spec graph
RemoveSpecNodes(s, S) ==
    [nodes |-> s.nodes \ S,
     edges |-> {e \in s.edges : e[1] \notin S /\ e[2] \notin S},
     obj |-> [n \in DOMAIN s.obj \ S |-> s.obj[n]],
     diagram |-> [n \in DOMAIN s.diagram \ S |-> s.diagram[n]],
     hint |-> [n \in DOMAIN s.hint \ S |-> s.hint[n]]]

\* the orders of nodes_to_merge: the children with a hint come last
MergeOrders(s, group_node) ==
    {q \in Perms(Succ(s, group_node)) :
        \A i, j \in 1..Len(q) :
            (s.hint[q[i]] # "none" /\ s.hint[q[j]] = "none") => j < i}

\* the hint of the group after the loop over with_hint
MergedHint(s, group_node, q) ==
    IF \E i \in 1..Len(q) : s.hint[q[i]] # "none"
    THEN s.hint[q[Len(q)]]
    ELSE s.hint[group_node]

\* nx.relabel_nodes(d, {old: new}, copy=False) after the object of old has
\* been replaced by o
RelabelNode(d, old, new, o) ==
    LET ren(x) == IF x = old THEN new ELSE x
    IN  [nodes |-> {ren(x) : x \in d.nodes},
         edges |-> {<<ren(e[1]), ren(e[2])>> : e \in d.edges},
         obj |-> [x \in {ren(y) : y \in DOMAIN d.obj} |->
                     IF x = new THEN o ELSE d.obj[x]]]

\* the node lists that groupby yields for the iteration order q
RECURSIVE NameRuns(_, _)
NameRuns(d, q) ==
    IF q = <<>> THEN <<>>
    ELSE LET rest == NameRuns(d, Tail(q))
         IN  IF rest # <<>>
                  /\ d.obj[Head(rest)[1]].name = d.obj[Head(q)].name
             THEN <<(<<Head(q)>> \o Head(rest))>> \o Tail(rest)
             ELSE <<(<<Head(q)>>)>> \o rest

\* the body of the loop of get_diagram_instance for one node list
RECURSIVE RenumberRun(_, _, _, _)
RenumberRun(r, nodelist, length, instance) ==
    IF nodelist = <<>> \/ r.error # "none" THEN r
    ELSE LET o == r.d.obj[Head(nodelist)]
             no == [o EXCEPT !.instance =
                       IF length = 1 THEN instance + 1
                       ELSE instance * length + o.instance]
         IN  IF length > 1 /\ o.instance = 0
             THEN [r EXCEPT !.error = "TypeError"]
             ELSE RenumberRun(
                      [r EXCEPT !.d = RelabelNode(r.d, ElementId(o),
                                                  ElementId(no), no)],
                      Tail(nodelist), length, instance)

RECURSIVE RenumberRuns(_, _, _)
RenumberRuns(r, runs, instance) ==
    IF runs = <<>> THEN r
    ELSE RenumberRuns(
             RenumberRun(r, Head(runs), Len(Head(runs)), instance),
             Tail(runs), instance)

\* get_diagram_instance(diagram, instance): the copies it can return, one
\* for each order in which the nodes of the diagram are iterated
get_diagram_instance(diagram, instance) ==
    IF \E n \in diagram.nodes : n \notin DOMAIN diagram.obj
    THEN {[error |-> "AttributeError", d |-> diagram]}
    ELSE {RenumberRuns([error |-> "none", d |-> diagram],
                       NameRuns(diagram, q), instance) :
              q \in Perms(diagram.nodes)}

\* disconnected(graph)
disconnected(graph) == Cardinality(WeakComponents(graph)) > 1

\* the key of a node that is None
NoneKey == <<"None">>

\* find_edges(graph): the (start, end) pairs it can return
find_edges(graph) ==
    IF disconnected(graph) THEN {<<NoneKey, NoneKey>>}
    ELSE {<<x, y>> : x \in {n \in graph.nodes : InDegree(graph, n) = 0},
                     y \in {n \in graph.nodes : OutDegree(graph, n) = 0}}

\* find_edges(graph) raises StopIteration
FindEdgesRaises(graph) ==
    /\ ~disconnected(graph)
    /\ \/ {n \in graph.nodes : InDegree(graph, n) = 0} = {}
       \/ {n \in graph.nodes : OutDegree(graph, n) = 0} = {}

\* diagram.add_nodes_from(d.nodes(data=True)); add_edges_from(d.edges())
AddDiagram(diagram, d) ==
    [nodes |-> diagram.nodes \cup d.nodes,
     edges |-> diagram.edges \cup d.edges,
     obj |-> d.obj @@ diagram.obj]

\* the starts of the pieces of d2 that the end of d1 is connected to: one
\* start for each weakly connected component of d2
BridgeTargets(d2) ==
    IF ~disconnected(d2)
    THEN {{e[1]} : e \in find_edges(d2)}
    ELSE {ts \in SUBSET {n \in d2.nodes : InDegree(d2, n) = 0} :
             \A cc \in WeakComponents(d2) : Cardinality(ts \cap cc) = 1}

BridgeRaises(d2) ==
    IF ~disconnected(d2) THEN FindEdgesRaises(d2)
    ELSE \E cc \in WeakComponents(d2) :
            \/ \A x \in cc : InDegree(d2, x) # 0
            \/ \A x \in cc : OutDegree(d2, x) # 0

\* the body of the loops of the And case of merge_group_diagrams for the
\* children n1, n2 and the instance i: the diagrams it can leave
MergePair(r, s, n1, n2, i) ==
    IF r.error # "none" THEN {r}
    ELSE IF n1 \notin DOMAIN s.diagram \/ n2 \notin DOMAIN s.diagram
    THEN {[r EXCEPT !.error = "AttributeError"]}
    ELSE UNION {
        IF r1.error # "none" THEN {[r EXCEPT !.error = r1.error]}
        ELSE IF r2.error # "none" THEN {[r EXCEPT !.error = r2.error]}
        ELSE IF FindEdgesRaises(r1.d) \/ BridgeRaises(r2.d)
        THEN {[r EXCEPT !.error = "StopIteration"]}
        ELSE {[r EXCEPT !.d =
                  AddDiagramEdges(AddDiagram(AddDiagram(r.d, r1.d), r2.d),
                                  {<<e[2], t>> : t \in ts})] :
                 e \in find_edges(r1.d), ts \in BridgeTargets(r2.d)} :
        r1 \in get_diagram_instance(s.diagram[n1], i),
        r2 \in get_diagram_instance(s.diagram[n2], i)}

RECURSIVE MergeInstances(_, _, _, _, _, _)
MergeInstances(rs, s, n1, n2, i, instances) ==
    IF i >= instances THEN rs
    ELSE MergeInstances(UNION {MergePair(r, s, n1, n2, i) : r \in rs},
                        s, n1, n2, i + 1, instances)

RECURSIVE MergeWindows(_, _, _, _)
MergeWindows(rs, s, ws, instances) ==
    IF ws = <<>> THEN rs
    ELSE MergeWindows(
             IF Head(ws)[2] = NoneKey THEN rs
             ELSE MergeInstances(rs, s, Head(ws)[1], Head(ws)[2], 0,
                                 instances),
             s, Tail(ws), instances)

\* a slip: a Group without logic is refused whatever its children
GroupWithoutLogicRaises_any(s, group_node) ==
    s.obj[group_node].logic = NoLogic

\* the test that opens merge_group_diagrams
GroupWithoutLogicRaises(s, group_node) ==
    s.obj[group_node].logic = NoLogic /\ OutDegree(s, group_node) > 1

\* a slip: the merged Group keeps its type, it is not marked 'Processed'
merge_group_diagrams_unmarked(s, group_node, q) ==
    LET o == s.obj[group_node]
        processed == s
    IN  IF GroupWithoutLogicRaises(s, group_node)
        THEN {[error |-> "ExporterError", s |-> s]}
        ELSE IF OutDegree(s, group_node) = 1
        THEN LET t == q[1]
                 moved == [processed EXCEPT
                     !.diagram =
                        IF t \in DOMAIN s.diagram
                        THEN (group_node :> s.diagram[t]) @@ s.diagram
                        ELSE [n \in DOMAIN s.diagram \ {group_node} |->
                                 s.diagram[n]],
                     !.hint[group_node] = s.hint[t]]
             IN  {[error |-> "none", s |-> RemoveSpecNodes(moved, {t})]}
        ELSE IF o.logic = NoLogic
        THEN {[error |-> "NotImplementedError", s |-> processed]}
        ELSE LET hinted == [processed EXCEPT
                     !.hint[group_node] = MergedHint(s, group_node, q)]
                 rs == IF o.logic.name = "and"
                       THEN MergeWindows(
                                {[error |-> "none", d |-> EmptyDiagram]},
                                s, Window(q, NoneKey), o.instances)
                       ELSE {[error |-> "none", d |-> EmptyDiagram]}
             IN  {[error |-> r.error,
                   s |-> IF r.error # "none" THEN hinted
                         ELSE RemoveSpecNodes(
                                  [hinted EXCEPT !.diagram =
                                      (group_node :> r.d) @@ s.diagram],
                                  Range(q))] : r \in rs}

\* merge_group_diagrams(group_node) with nodes_to_merge in the order q: the
\* outcomes [error, s] it can have
merge_group_diagrams(s, group_node, q) ==
    LET o == s.obj[group_node]
        processed == [s EXCEPT !.obj[group_node].type = "processed"]
    IN  IF GroupWithoutLogicRaises(s, group_node)
        THEN {[error |-> "ExporterError", s |-> s]}
        ELSE IF OutDegree(s, group_node) = 1
        THEN LET t == q[1]
                 moved == [processed EXCEPT
                     !.diagram =
                        IF t \in DOMAIN s.diagram
                        THEN (group_node :> s.diagram[t]) @@ s.diagram
                        ELSE [n \in DOMAIN s.diagram \ {group_node} |->
                                 s.diagram[n]],
                     !.hint[group_node] = s.hint[t]]
             IN  {[error |-> "none", s |-> RemoveSpecNodes(moved, {t})]}
        ELSE IF o.logic = NoLogic
        THEN {[error |-> "NotImplementedError", s |-> processed]}
        ELSE LET hinted == [processed EXCEPT
                     !.hint[group_node] = MergedHint(s, group_node, q)]
                 rs == IF o.logic.name = "and"
                       THEN MergeWindows(
                                {[error |-> "none", d |-> EmptyDiagram]},
                                s, Window(q, NoneKey), o.instances)
                       ELSE {[error |-> "none", d |-> EmptyDiagram]}
             IN  {[error |-> r.error,
                   s |-> IF r.error # "none" THEN hinted
                         ELSE RemoveSpecNodes(
                                  [hinted EXCEPT !.diagram =
                                      (group_node :> r.d) @@ s.diagram],
                                  Range(q))] : r \in rs}

\* nx.dfs_edges(f, v): the orders in which the edges of the tree below v
\* can be visited
RECURSIVE dfs_edges(_, _)
RECURSIVE DfsChildren(_, _, _)
DfsChildren(f, v, q) ==
    IF q = <<>> THEN {<<>>}
    ELSE {<<(<<v, Head(q)>>)>> \o a \o b :
             a \in dfs_edges(f, Head(q)), b \in DfsChildren(f, v, Tail(q))}

dfs_edges(f, v) == UNION {DfsChildren(f, v, q) : q \in Perms(Succ(f, v))}

\* int(logic.voting) raises when the logic carries no voting number
VoteRaises(logic) == logic.name \in {"active", "standby"} /\ logic.voting = 0

\* the body of the loop of apply_failure_logic for the edge e of f: the
\* outcomes it can have.  A node without object (the key None that a merge can
\* leave in d) makes has_nodes and the loops over d.nodes_iter() raise
\* AttributeError when they reach it.
ApplyEvent(r, e, name, logic) ==
    LET uo == FailureObj(e[1])
        vo == FailureObj(e[2])
        d == r.d
        vote_val == IF uo.logic.name = "or" THEN 0 ELSE uo.logic.voting
        node_out == RbdNode(name \o <<"Out">>, vote_val)
        d1 == AddNodeObj(d, ElementId(node_out), node_out)
        without_obj == d.nodes \ DOMAIN d.obj
        matching == {n \in d.nodes \cap DOMAIN d.obj :
                        d.obj[n].name = vo.name}
        stamped == [d1 EXCEPT !.obj =
                       [n \in DOMAIN d1.obj |->
                           IF n \in matching
                           THEN [d1.obj[n] EXCEPT !.standby_mode =
                                    logic_to_standby_mode(logic)]
                           ELSE d1.obj[n]]]
        raised == [r EXCEPT !.error = "AttributeError"]
    IN  IF r.error # "none" \/ ~is_type(vo, "failureevent") THEN {r}
        ELSE IF matching = {}
        THEN IF without_obj = {} THEN {r} ELSE {raised}
        ELSE (IF without_obj = {} THEN {} ELSE {raised}) \cup
             (IF uo.logic.name \in {"or", "active", "standby"}
              THEN IF VoteRaises(uo.logic)
                   THEN {[r EXCEPT !.error = "TypeError"]}
                   ELSE IF without_obj # {} THEN {raised}
                   ELSE {[r EXCEPT !.d =
                            AddDiagramEdges(stamped,
                                {<<n, ElementId(node_out)>> : n \in matching})]}
              ELSE IF uo.logic.name = "and" THEN {raised}
              ELSE {r})

RECURSIVE ApplyEvents(_, _, _, _)
ApplyEvents(rs, es, name, logic) ==
    IF es = <<>> THEN rs
    ELSE ApplyEvents(UNION {ApplyEvent(r, Head(es), name, logic) : r \in rs},
                     Tail(es), name, logic)

\* apply_failure_logic(group) on the diagram d, the edges of the failures
\* graph being visited in the order es: the outcomes it can have
apply_failure_logic(d, es, name, logic) ==
    ApplyEvents({[error |-> "none", d |-> d]}, es, name, logic)

(***************************************************************************)
(* Rbd.serialize and the emitter.  The state of the emitter during the     *)
(* serialization of a block is the record [blocks, nodes, connections,     *)
(* ids, stack, error].  The connection rows are kept as a set: no          *)
(* definition depends on the order of nx.edges_iter.                       *)
(***************************************************************************)
\* the tokens that are joined with '.' to form an Id or a Page
Tokens(prefix, name, code, instance) ==
    LET formatted == Format(code, instance)
        by_code == code # <<>>
        nm == IF by_code THEN <<formatted>> ELSE name
        inst == IF by_code /\ formatted # Text(code) THEN 0 ELSE instance
    IN  StrAll(prefix) \o nm \o (IF inst # 0 THEN <<Str(inst)>> ELSE <<>>)

\* element_tokens() of _serialize_element and _serialize_connection
element_tokens(element, ppath, pinstance) ==
    Tokens(ppath \o (IF pinstance # 0 THEN <<pinstance>> ELSE <<>>),
           element.name, element.code, element.instance)

\* a slip: the prefix of a page is built like that of an Id, with the
\* instance of the parent appended to the path
parent_tokens_element_prefix(parent, ppath, pinstance) ==
    Tokens(ppath \o (IF pinstance # 0 THEN <<pinstance>> ELSE <<>>),
           parent.name, parent.code, pinstance)

\* parent_tokens() of _serialize_element and _serialize_connection
parent_tokens(parent, ppath, pinstance) ==
    Tokens(ppath, parent.name, parent.code, pinstance)

\* IsographEmitter.add_block
add_block(st, row) ==
    [st EXCEPT !.blocks = Append(@, row),
               !.ids = (row.Id :> Len(st.blocks)) @@ @]

\* IsographEmitter.add_node
add_node(st, row) ==
    [st EXCEPT !.nodes = Append(@, row),
               !.ids = (row.Id :> Len(st.nodes)) @@ @]

\* IsographEmitter.add_connection
add_connection(st, identifier, page, src_id, src_type, dst_id, dst_type) ==
    IF src_id \notin DOMAIN st.ids \/ dst_id \notin DOMAIN st.ids
    THEN [st EXCEPT !.error = "KeyError(_ids)"]
    ELSE [st EXCEPT !.connections = @ \cup
             {[Id |-> identifier, Page |-> page,
               InputObjectIndex |-> st.ids[src_id],
               InputObjectType |-> src_type,
               OutputObjectIndex |-> st.ids[dst_id],
               OutputObjectType |-> dst_type]}]

\* a slip: an element that refers to a compound block is not emitted
serialize_element_flat_only(st, element, parent, ppath, pinstance) ==
    LET Id == element_tokens(element, ppath, pinstance)
        Page == parent_tokens(parent, ppath, pinstance)
    IN  IF element.name \in DOMAIN compound_block_index THEN st
        ELSE IF element.type = "Rbd block"
        THEN add_block(st, [Id |-> Id, Page |-> Page,
                            Description |-> element.description,
                            StandbyMode |-> element.standby_mode,
                            FailureModel |-> element.failure_model])
        ELSE add_node(st, [Id |-> Id, Page |-> Page,
                           Vote |-> element.vote_value])

\* Rbd._serialize_element
serialize_element(st, element, parent, ppath, pinstance) ==
    LET Id == element_tokens(element, ppath, pinstance)
        Page == parent_tokens(parent, ppath, pinstance)
    IN  IF element.type = "Rbd block"
        THEN add_block(st, [Id |-> Id, Page |-> Page,
                            Description |-> element.description,
                            StandbyMode |-> element.standby_mode,
                            FailureModel |-> element.failure_model])
        ELSE add_node(st, [Id |-> Id, Page |-> Page,
                           Vote |-> element.vote_value])

\* Rbd._serialize_connection
serialize_connection(st, parent, ppath, pinstance, src, dst) ==
    add_connection(st,
        [prefix |-> StrAll(ppath \o (IF pinstance # 0 THEN <<pinstance>>
                                     ELSE <<>>)),
         src |-> ElementId(src), dst |-> ElementId(dst)],
        parent_tokens(parent, ppath, pinstance),
        element_tokens(src, ppath, pinstance), src.type,
        element_tokens(dst, ppath, pinstance), dst.type)

\* nx.topological_sort(graph): the orders it can return
RECURSIVE TopologicalExtend(_, _)
TopologicalExtend(d, placed) ==
    LET done == Range(placed)
        ready == {n \in d.nodes \ done : Pred(d, n) \subseteq done}
    IN  IF done = d.nodes THEN {placed}
        ELSE UNION {TopologicalExtend(d, Append(placed, n)) : n \in ready}

topological_sort(d) == TopologicalExtend(d, <<>>)

\* the first loop of the body of the while loop of Rbd.serialize
RECURSIVE SerializeElements(_, _, _, _, _)
SerializeElements(st, cblock, cpath, cinstance, order) ==
    IF order = <<>> \/ st.error # "none" THEN st
    ELSE IF Head(order) \notin DOMAIN cblock.internal_graph.obj
    THEN [st EXCEPT !.error = "AttributeError"]
    ELSE LET uo == cblock.internal_graph.obj[Head(order)]
             npath == IF cinstance # 0 THEN Append(cpath, cinstance)
                      ELSE cpath
             pushed == IF uo.name \in DOMAIN compound_block_index
                       THEN [st EXCEPT !.stack = Append(@,
                                [block |-> uo.name, path |-> npath,
                                 instance |-> uo.instance])]
                       ELSE st
         IN  SerializeElements(
                 serialize_element(pushed, uo, cblock, cpath, cinstance),
                 cblock, cpath, cinstance, Tail(order))

\* the second loop of the body of the while loop of Rbd.serialize
RECURSIVE SerializeConnections(_, _, _, _, _)
SerializeConnections(st, cblock, cpath, cinstance, es) ==
    IF es = {} \/ st.error # "none" THEN st
    ELSE LET e == CHOOSE x \in es : TRUE
             ig == cblock.internal_graph
         IN  IF e[1] \notin DOMAIN ig.obj \/ e[2] \notin DOMAIN ig.obj
             THEN [st EXCEPT !.error = "AttributeError"]
             ELSE SerializeConnections(
                      serialize_connection(st, cblock, cpath, cinstance,
                                           ig.obj[e[1]], ig.obj[e[2]]),
                      cblock, cpath, cinstance, es \ {e})

\* a slip: the connections of a block are serialized before its elements
SerializedBlock_connections_first(st, cblock, cpath, cinstance, order) ==
    SerializeElements(
        SerializeConnections(st, cblock, cpath, cinstance,
                             cblock.internal_graph.edges),
        cblock, cpath, cinstance, order)

\* the body of the while loop of Rbd.serialize for the popped block
SerializedBlock(st, cblock, cpath, cinstance, order) ==
    SerializeConnections(
        SerializeElements(st, cblock, cpath, cinstance, order),
        cblock, cpath, cinstance, cblock.internal_graph.edges)

(***************************************************************************)
(* IsographExporter.export: the steps of the exporter.                     *)
(***************************************************************************)
IndexOf(q, n) == CHOOSE i \in 1..Len(q) : q[i] = n

\* relabel_mapping of normalize_block_names for the order q of g.nodes_iter()
relabel_mapping(q, n) == IF n = ROOT THEN n ELSE <<Str(IndexOf(q, n))>>

NormalizeBlockNames ==
    /\ pc = "export"
    /\ pc' = "construct"
    /\ IF uses_templates
       THEN \E q \in Perms(components_graph.nodes) :
              /\ components_graph' =
                    [nodes |-> {relabel_mapping(q, n) :
                                   n \in components_graph.nodes},
                     edges |-> {<<relabel_mapping(q, e[1]),
                                  relabel_mapping(q, e[2])>> :
                                   e \in components_graph.edges}]
              /\ node_obj' =
                    [v \in {relabel_mapping(q, n) : n \in DOMAIN node_obj} |->
                        LET n == CHOOSE x \in DOMAIN node_obj :
                                     relabel_mapping(q, x) = v
                        IN  IF n = ROOT THEN node_obj[n]
                            ELSE [node_obj[n] EXCEPT
                                    !.description =
                                        <<component_basename(node_obj[n].name)>>,
                                    !.name = v]]
       ELSE UNCHANGED <<components_graph, node_obj>>
    /\ UNCHANGED <<rows_rest, rbdvars, emvars, error>>

\* the first node of nx.topological_sort(g)
RbdRoot == CHOOSE n \in RbdRoots : TRUE

\* the compounds for which no block has been constructed yet
Pending ==
    {n \in Visited(RbdRoot) :
        /\ is_type(node_obj[n], "compound")
        /\ n \notin DOMAIN compound_block_index}

\* the compounds that the breadth-first traversal can visit next
NextCompounds ==
    {n \in Pending :
        \A m \in Pending : Depth(components_graph, RbdRoot, n)
                              <= Depth(components_graph, RbdRoot, m)}

\* _CompoundBlock(name, code) with its internal graph
CompoundBlock(n, internal_graph) ==
    [name |-> node_obj[n].name, code |-> parse_code(node_obj[n].code),
     internal_graph |-> internal_graph]

\* one pass of the loop of _construct_compound_blocks, for a compound whose
\* structural sub-graph holds no Group
ConstructCompoundBlock ==
    /\ pc = "construct"
    /\ cur = NoNode
    /\ \E n \in NextCompounds :
          LET s == extract_subgraph(n)
          IN  /\ ~HasGroup(s)
              /\ IF s.nodes # {} /\ VoteRaises(s.obj[n].logic)
                 THEN /\ pc' = "failed"
                      /\ error' = "TypeError"
                      /\ UNCHANGED compound_block_index
                 ELSE /\ UNCHANGED <<pc, error>>
                      /\ \E order \in Perms(Succ(s, n)) :
                            compound_block_index' =
                               (n :> CompoundBlock(n,
                                   IF s.nodes = {} THEN EmptyDiagram
                                   ELSE finalize_graph(
                                            UngroupedDiagram(
                                                s, n, node_obj[n].name, order),
                                            node_obj[n].name)))
                                  @@ compound_block_index
    /\ UNCHANGED <<rows_rest, components_graph, node_obj, cur, sg,
                   blocks_stack, emvars>>

\* the start of generate_internal_graph for a compound with Groups: the
\* loop over the leaves of its structural sub-graph
BeginGroupedBlock ==
    /\ pc = "construct"
    /\ cur = NoNode
    /\ \E n \in NextCompounds :
          LET s == extract_subgraph(n)
              f == extract_failures_subgraph(FailuresKey(n))
          IN  /\ HasGroup(s)
              /\ IF f = NoGraph \/ \E leaf \in Leaves(s) : HintRaises(s, f, leaf)
                 THEN /\ pc' = "failed"
                      /\ error' = "AttributeError"
                      /\ UNCHANGED <<cur, sg>>
                 ELSE /\ pc' = "merge"
                      /\ cur' = n
                      /\ sg' = PrepareLeaves(s, f)
                      /\ error' = error
    /\ UNCHANGED <<rows_rest, components_graph, node_obj,
                   compound_block_index, blocks_stack, emvars>>

\* one pass of the while loop that merges and raises the Groups
MergeStep ==
    /\ pc = "merge"
    /\ Cardinality(sg.nodes) # 2
    /\ IF DeepestGroups(sg, cur) = {}
       THEN /\ pc' = "failed"
            /\ error' = "KeyError"
            /\ sg' = sg
       ELSE \E dg \in DeepestGroups(sg, cur) :
            \E q \in MergeOrders(sg, dg) :
            \E r \in merge_group_diagrams(sg, dg, q) :
               /\ sg' = r.s
               /\ pc' = IF r.error = "none" THEN pc ELSE "failed"
               /\ error' = r.error
    /\ UNCHANGED <<rows_rest, components_graph, node_obj, cur,
                   compound_block_index, blocks_stack, emvars>>

\* the end of generate_internal_graph for a compound with Groups
FinishGroupedBlock ==
    /\ pc = "merge"
    /\ Cardinality(sg.nodes) = 2
    /\ LET dg == CHOOSE x \in Succ(sg, cur) : TRUE
           f == extract_failures_subgraph(FailuresKey(cur))
           r == CHOOSE x \in f.nodes : InDegree(f, x) = 0
           name == node_obj[cur].name
       IN  IF dg \notin DOMAIN sg.diagram
           THEN /\ pc' = "failed"
                /\ error' = "AttributeError"
                /\ UNCHANGED <<cur, sg, compound_block_index>>
           ELSE \E es \in dfs_edges(f, r) :
                \E a \in apply_failure_logic(sg.diagram[dg], es, name,
                                             node_obj[cur].logic) :
                      IF a.error # "none"
                      THEN /\ pc' = "failed"
                           /\ error' = a.error
                           /\ UNCHANGED <<cur, sg, compound_block_index>>
                      ELSE /\ pc' = "construct"
                           /\ error' = error
                           /\ cur' = NoNode
                           /\ sg' = NoSpecGraph
                           /\ compound_block_index' =
                                 (cur :> CompoundBlock(cur,
                                             finalize_graph(a.d, name)))
                                    @@ compound_block_index
    /\ UNCHANGED <<rows_rest, components_graph, node_obj, blocks_stack,
                   emvars>>

\* Rbd.serialize starts with the first block of the index on the stack
ConstructDone ==
    /\ pc = "construct"
    /\ cur = NoNode
    /\ Pending = {}
    /\ pc' = "serialize"
    /\ blocks_stack' = <<[block |-> node_obj[RbdRoot].name, path |-> <<>>,
                          instance |-> 0]>>
    /\ UNCHANGED <<rows_rest, components_graph, node_obj, cur, sg,
                   compound_block_index, emvars, error>>

\* one pass of the while loop of Rbd.serialize
SerializeBlock ==
    /\ pc = "serialize"
    /\ blocks_stack # <<>>
    /\ LET top == blocks_stack[Len(blocks_stack)]
           cblock == compound_block_index[top.block]
           st == [blocks |-> blocks, nodes |-> nodes,
                  connections |-> connections, ids |-> ids,
                  stack |-> SubSeq(blocks_stack, 1, Len(blocks_stack) - 1),
                  error |-> "none"]
       IN  IF topological_sort(cblock.internal_graph) = {}
           THEN /\ pc' = "failed"
                /\ error' = "NetworkXUnfeasible"
                /\ UNCHANGED <<blocks_stack, emvars>>
           ELSE \E order \in topological_sort(cblock.internal_graph) :
                  LET out == SerializedBlock(st, cblock, top.path,
                                             top.instance, order)
                  IN  /\ blocks' = out.blocks
                      /\ nodes' = out.nodes
                      /\ connections' = out.connections
                      /\ ids' = out.ids
                      /\ UNCHANGED commits
                      /\ blocks_stack' = out.stack
                      /\ pc' = IF out.error = "none" THEN pc ELSE "failed"
                      /\ error' = out.error
    /\ UNCHANGED <<rows_rest, components_graph, node_obj, cur, sg,
                   compound_block_index>>

SerializeDone ==
    /\ pc = "serialize"
    /\ blocks_stack = <<>>
    /\ pc' = "serialized"
    /\ UNCHANGED <<rows_rest, components_graph, node_obj, rbdvars, emvars,
                   error>>

(***************************************************************************)
(* IsographExporter.export after _export_rbd: the failure models, the      *)
(* manpower and the spares are handed to the emitter, then commit().       *)
(***************************************************************************)
\* the attributes that IRContainer offers to the exporter
IRContainerProperties ==
    {"loaded", "component_graph", "failures_graph", "failure_models",
     "uses_templates"}

\* getattr(ir_container, name): the exception it raises, or "none"
GetAttrRaises(name) ==
    IF name \in IRContainerProperties THEN "none"
    ELSE "AttributeError(" \o name \o ")"

\* manpower_export(ir_container, emitter)
manpower_export == GetAttrRaises("manpower_list")

\* spares_export(ir_container, emitter)
spares_export == GetAttrRaises("spares_list")

\* the first exception of the steps of export that follow _export_rbd
ExportRaises ==
    IF GetAttrRaises("failure_models") # "none"
    THEN GetAttrRaises("failure_models")
    ELSE IF manpower_export # "none" THEN manpower_export
    ELSE spares_export

\* _export_failure_models(); _export_manpower(); _export_spares(); commit()
FinishExport ==
    /\ pc = "serialized"
    /\ IF ExportRaises = "none"
       THEN /\ pc' = "committed"
            /\ commits' = commits + 1
            /\ UNCHANGED error
       ELSE /\ pc' = "failed"
            /\ error' = ExportRaises
            /\ UNCHANGED commits
    /\ UNCHANGED <<rows_rest, components_graph, node_obj, rbdvars, blocks,
                   nodes, connections, ids>>

(***************************************************************************)
(* The inputs of the exporter: the rows of a model with one compound of    *)
(* Basic elements, of a model with a template, of a model with a Group     *)
(* and its failure logic, and of a model with a Group inside a Group.      *)
(***************************************************************************)
Row(type, name, parent, code, instances) ==
    [type |-> type, name |-> name, parent |-> parent, code |-> code,
     instances |-> instances]

LogicRow(type, component, logic) ==
    [type |-> type, component |-> component, logic |-> logic]

Logics == {<<"and">>, <<"or">>, <<"active", 2, 3>>, <<"standby", 1, 2>>}

NoLogicRow == <<"none">>

LogicRows(type, component, logic) ==
    IF logic = NoLogicRow THEN {} ELSE {LogicRow(type, component, logic)}

BasicCodes == {<<>>, <<"b">>, <<"P", "[X]">>}

FlatInputs ==
    {[components |->
         {Row("compound", "A", "ROOT", <<"a">>, iA),
          Row("basic", "B", "A", cB, nB)}
            \cup (IF withC THEN {Row("basic", "C", "A", <<"c">>, 1)} ELSE {}),
      logic |-> LogicRows("inherited", "A", lA),
      failures |-> IF withModel
                   THEN {[component |-> "B", failuremodel |-> "fm1"]}
                   ELSE {}] :
        iA \in {1, 2}, nB \in 1..MaxInstances, cB \in BasicCodes,
        withC \in BOOLEAN, lA \in Logics \cup {NoLogicRow},
        withModel \in BOOLEAN}

TemplateInputs ==
    {[components |->
         {Row("compound", "A", "ROOT", <<"a">>, iA),
          Row("compound", "T", "ROOT", <<"t1">>, 1),
          Row("compound", "T", "A", <<"t2">>, 1),
          Row("basic", "X", "T", cX, 1)}
            \cup (IF withDef THEN {Row("compound", "T", "*", <<"t">>, 1)}
                  ELSE {}),
      logic |-> {LogicRow("inherited", "A", <<"and">>),
                 LogicRow("inherited", "T", <<"and">>)},
      failures |-> {}] :
        iA \in {1, 2}, cX \in {<<>>, <<"x">>}, withDef \in BOOLEAN}

GroupInputs ==
    {[components |->
         {Row("compound", "A", "ROOT", <<"a">>, 1),
          Row("group", "G", "A", <<"g">>, iG),
          Row("basic", "B", "G", <<"b">>, nB)}
            \cup (IF withC THEN {Row("basic", "C", "G", <<"c">>, 1)} ELSE {})
            \cup (IF withFailures
                  THEN {Row("failurenode", "FN", "A", <<>>, 1),
                        Row("failureevent", "B", "FN", <<>>, 1)}
                  ELSE {}),
      logic |-> LogicRows("inherited", "A", <<"active", 2, 3>>)
                   \cup LogicRows("inherited", "G", lG)
                   \cup (IF withFailures
                         THEN LogicRows("failurenode", "FN", lF) ELSE {}),
      failures |-> {}] :
        iG \in {1, 2}, nB \in 1..MaxInstances, withC \in BOOLEAN,
        withFailures \in BOOLEAN,
        lG \in {NoLogicRow, <<"and">>, <<"or">>},
        lF \in {NoLogicRow, <<"and">>, <<"or">>, <<"active", 2, 3>>}}

\* a Group H inside the Group G: the diagram of H is merged first and then
\* takes part, like that of the Basic D, in the merge of G
NestedInputs ==
    {[components |->
         {Row("compound", "A", "ROOT", <<"a">>, 1),
          Row("group", "G", "A", <<"g">>, iG),
          Row("group", "H", "G", <<"h">>, 1),
          Row("basic", "B", "H", <<"b">>, nB),
          Row("basic", "D", "G", <<"d">>, 1),
          Row("failurenode", "FN", "A", <<>>, 1),
          Row("failureevent", fe, "FN", <<>>, 1)}
            \cup (IF withC THEN {Row("basic", "C", "H", <<"c">>, 1)} ELSE {}),
      logic |-> LogicRows("inherited", "A", <<"active", 2, 3>>)
                   \cup LogicRows("inherited", "G", <<"and">>)
                   \cup LogicRows("inherited", "H", lH)
                   \cup LogicRows("failurenode", "FN", <<"or">>),
      failures |-> {}] :
        iG \in {1, 2}, nB \in 1..MaxInstances, withC \in BOOLEAN,
        fe \in {"B", "D"}, lH \in {NoLogicRow, <<"and">>}}

ExportInputs ==
    FlatInputs \cup TemplateInputs \cup GroupInputs \cup NestedInputs

InitExport ==
    /\ \E input \in ExportInputs :
          /\ component_list = input.components
          /\ logic_list = input.logic
          /\ component_failures_list = input.failures
    /\ pc = "load"
    /\ error = "none"
    /\ components_index = <<>>
    /\ raw_input_graph = NoGraph
    /\ g = NoGraph
    /\ components_graph = NoGraph
    /\ node_obj = <<>>
    /\ failures_index = <<>>
    /\ failures_graph = NoGraph
    /\ uses_templates = FALSE
    /\ cur = NoNode
    /\ sg = NoSpecGraph
    /\ compound_block_index = <<>>
    /\ blocks_stack = <<>>
    /\ blocks = <<>>
    /\ nodes = <<>>
    /\ connections = {}
    /\ ids = <<>>
    /\ commits = 0
    /\ fm_row = NoRow
    /\ fm_result = NotBuilt

NextExport ==
    \/ BuildIndexes
    \/ BuildRawInputComponentGraph
    \/ ResolveStep
    \/ ResolveDone
    \/ BuildFailuresGraph
    \/ AssignObjects
    \/ Translate
    \/ NormalizeBlockNames
    \/ ConstructCompoundBlock
    \/ BeginGroupedBlock
    \/ MergeStep
    \/ FinishGroupedBlock
    \/ ConstructDone
    \/ SerializeBlock
    \/ SerializeDone
    \/ FinishExport

SpecExport == InitExport /\ [][NextExport]_vars

(***************************************************************************)
(* Properties of FailureModel.                                             *)
(***************************************************************************)
\* the number of (eta, beta, gamma) triples a distribution takes
Arity(distribution) ==
    CASE distribution = "exponential" -> 1
      [] distribution = "weibull" -> 1
      [] distribution = "bi-weibull" -> 2
      [] distribution = "tri-weibull" -> 3

\* s consists of exactly Arity(distribution) groups separated by colons, each
\* of one number (Exponential) or of three numbers separated by commas
ExactArity(distribution, s) ==
    LET groups == Split(s, ":")
        width == IF distribution = "exponential" THEN 1 ELSE 3
    IN  /\ Len(groups) = Arity(distribution)
        /\ \A i \in 1..Len(groups) :
              /\ Len(Split(groups[i], ",")) = width
              /\ \A j \in 1..width : IsInt(Split(groups[i], ",")[j])

\* C6: FailureModel(...) succeeds only on a parameter string of exactly the
\* arity of its distribution, with a parameter list of that size, and raises
\* TranslatorError on every other string.
C6_ArityEnforced ==
    fm_result.state # "none" =>
        IF ExactArity(fm_row.distribution, fm_row.parameters)
        THEN /\ fm_result.state = "built"
             /\ Len(fm_result.parameters) = Arity(fm_row.distribution)
        ELSE /\ fm_result.state = "raised"
             /\ fm_result.error = "TranslatorError"

(***************************************************************************)
(* Properties of the graph resolver.                                       *)
(***************************************************************************)
Resolved == pc \in {"failures", "assign", "loaded", "export"}

\* C1 (as claimed): after resolution every node of the components graph has
\* at most one incoming edge and every node but ROOT has exactly one.
C1_EveryNodeInDegree ==
    (pc = "failures" /\ error = "none") =>
        \A n \in components_graph.nodes :
            /\ InDegree(components_graph, n) <= 1
            /\ n # ROOT => InDegree(components_graph, n) = 1

\* C1 (amended): after resolution the nodes reached from ROOT form a tree
\* rooted at ROOT: ROOT has no incoming edge and every other node reached
\* from ROOT has exactly one.
C1_ReachedNodesFormTree ==
    (pc = "failures" /\ error = "none") =>
        \A n \in Descendants(components_graph, ROOT) :
            InDegree(components_graph, n) = (IF n = ROOT THEN 0 ELSE 1)

\* a resolved graph in which a shared node was cloned under two parents
C1_Witness ==
    /\ pc = "failures"
    /\ SharedNodes(raw_input_graph) # {}
    /\ \E n \in Descendants(components_graph, ROOT) : Len(n) > 1

\* some node of gr lies on a directed cycle
HasCycle(gr) == \E n \in gr.nodes : n \in ReachFrom(gr, {}, Succ(gr, n))

SharedComponents ==
    {v \in Names :
        Cardinality(Pred(raw_input_graph, <<v>>)
                      \cap Descendants(raw_input_graph, ROOT)) >= 2}

Clones(v) ==
    {n \in Descendants(components_graph, ROOT) : component_basename(n) = v}

SeparateClones(v) ==
    \A c1, c2 \in Clones(v) :
        c1 # c2 =>
          /\ Descendants(components_graph, c1)
                 \cap Descendants(components_graph, c2) = {}
          /\ node_obj[c1].name # node_obj[c2].name
          /\ node_obj[c1].logic = node_obj[c2].logic
          /\ node_obj[c1].failure_model = node_obj[c2].failure_model

SameCode(v) ==
    \A c1, c2 \in Clones(v) : node_obj[c1].code = node_obj[c2].code

\* every parent a component row names is itself reached from ROOT
NoDanglingParent ==
    raw_input_graph.nodes \subseteq Descendants(raw_input_graph, ROOT)

Built == DOMAIN compound_block_index

Diagram(n) == compound_block_index[n].internal_graph

Children(n) == Succ(components_graph, n)

\* a constructed compound with children and without Groups below it
Ungrouped(n) ==
    /\ n \in Built
    /\ Children(n) # {}
    /\ \A c \in Descendants(components_graph, n) : node_obj[c].type # "group"

InstanceNumbers(c) ==
    IF node_obj[c].instances > 1 THEN 1..node_obj[c].instances ELSE {0}

InstanceId(c, i) ==
    IF i = 0 THEN node_obj[c].name ELSE node_obj[c].name \o <<Str(i)>>

\* the ids of the blocks of all instances of all children of n
InstanceIds(n) ==
    UNION {{InstanceId(c, i) : i \in InstanceNumbers(c)} : c \in Children(n)}

Sources(d) == {x \in d.nodes : InDegree(d, x) = 0}

Sinks(d) == {x \in d.nodes : OutDegree(d, x) = 0}

\* the compound n was given a logic
HasLogic(n) == node_obj[n].logic.name # "none"

\* C3: the finalized internal diagram of every compound that has children
\* and a logic has exactly one node of in-degree 0 and exactly one node of
\* out-degree 0.
C3_SingleSourceAndSink ==
    \A n \in Built :
        (Children(n) # {} /\ HasLogic(n)) =>
            /\ Cardinality(Sources(Diagram(n))) = 1
            /\ Cardinality(Sinks(Diagram(n))) = 1

\* the blocks of the diagram d that stand for the element called name
BlocksNamed(d, name) ==
    {x \in d.nodes : x \in DOMAIN d.obj /\ d.obj[x].name = name}

\* d holds exactly N blocks of the element o of N instances, and they are
\* numbered 1..N when N > 1
HoldsInstances(d, o) ==
    /\ Cardinality(BlocksNamed(d, o.name)) = o.instances
    /\ o.instances > 1 =>
          {d.obj[x].instance : x \in BlocksNamed(d, o.name)} = 1..o.instances

\* C4: the leaf diagram of a Basic element of N instances holds exactly N
\* blocks of it, numbered 1..N, whatever the logic of its parent, and so
\* does the diagram of a compound without Groups that has a logic, for each
\* Basic child.
C4_InstanceCount ==
    /\ pc = "merge" =>
          \A leaf \in Leaves(sg) \cap DOMAIN sg.diagram :
              sg.obj[leaf].type = "basic" =>
                  HoldsInstances(sg.diagram[leaf], sg.obj[leaf])
    /\ \A n \in Built :
          (Ungrouped(n) /\ HasLogic(n)) =>
              \A c \in Children(n) :
                  node_obj[c].type = "basic" =>
                      HoldsInstances(Diagram(n), node_obj[c])

\* C7: the diagram of a compound without Groups whose logic is And is one
\* series path over the blocks of all instances of all its children: it
\* holds exactly these blocks and one edge less, every block has at most one
\* predecessor and one successor, the path is connected, and the instances
\* of a child follow each other in instance order.
C7_AndIsSeriesPath ==
    \A n \in Built :
        (Ungrouped(n) /\ node_obj[n].logic.name = "and") =>
            LET d == Diagram(n)
            IN  /\ d.nodes = InstanceIds(n)
                /\ \A x \in d.nodes :
                      /\ x \in DOMAIN d.obj
                      /\ d.obj[x].type = "Rbd block"
                      /\ InDegree(d, x) <= 1
                      /\ OutDegree(d, x) <= 1
                /\ Cardinality(d.edges) = Cardinality(d.nodes) - 1
                /\ Cardinality(WeakComponents(d)) = 1
                /\ \A c \in Children(n) :
                      \A i \in InstanceNumbers(c) :
                          (i > 0 /\ i < node_obj[c].instances) =>
                              <<InstanceId(c, i), InstanceId(c, i + 1)>>
                                  \in d.edges

\* a series path over the blocks of two children, one of them of several
\* instances
C7_Witness ==
    \E n \in Built :
        /\ Ungrouped(n) /\ node_obj[n].logic.name = "and"
        /\ Cardinality(Children(n)) = 2
        /\ Cardinality(Diagram(n).edges) >= 2

\* the standby mode that goes with a logic
StandbyModeOf(logic) ==
    CASE logic.name = "active" -> "Hot"
      [] logic.name = "standby" -> "Cold"
      [] OTHER -> "none"

\* the vote that goes with a logic: its k, and none for Or
VoteOf(logic) == IF logic.name = "or" THEN 0 ELSE logic.voting

Parallel(n) ==
    Ungrouped(n) /\ node_obj[n].logic.name \in {"or", "active", "standby"}

\* the diagram of n is the parallel wiring of the blocks of all instances of
\* all its children between the junctions In and Out, the blocks carrying
\* the standby mode of the logic of n
ParallelShape(n) ==
    LET d == Diagram(n)
        In == node_obj[n].name \o <<"In">>
        Out == node_obj[n].name \o <<"Out">>
    IN  /\ d.nodes = {In, Out} \cup InstanceIds(n)
        /\ d.edges = {<<In, b>> : b \in InstanceIds(n)}
                        \cup {<<b, Out>> : b \in InstanceIds(n)}
        /\ \A x \in d.nodes : x \in DOMAIN d.obj
        /\ d.obj[In].type = "Rbd node"
        /\ d.obj[Out].type = "Rbd node"
        /\ \A b \in InstanceIds(n) :
              /\ d.obj[b].type = "Rbd block"
              /\ d.obj[b].standby_mode = StandbyModeOf(node_obj[n].logic)

\* C8 (as claimed): a compound without Groups whose logic is Or, Active or
\* Standby has the parallel wiring as its diagram, and both junctions In and
\* Out carry the vote k of the logic (none for Or).
C8_BothJunctionsCarryVote ==
    \A n \in Built :
        Parallel(n) =>
            /\ ParallelShape(n)
            /\ Diagram(n).obj[node_obj[n].name \o <<"In">>].vote_value
                  = VoteOf(node_obj[n].logic)
            /\ Diagram(n).obj[node_obj[n].name \o <<"Out">>].vote_value
                  = VoteOf(node_obj[n].logic)

\* C8 (amended): a compound without Groups whose logic is Or, Active or
\* Standby has the parallel wiring as its diagram; the junction Out carries
\* the vote k of the logic (none for Or) and the junction In carries none.
C8_OutJunctionCarriesVote ==
    \A n \in Built :
        Parallel(n) =>
            /\ ParallelShape(n)
            /\ Diagram(n).obj[node_obj[n].name \o <<"In">>].vote_value = 0
            /\ Diagram(n).obj[node_obj[n].name \o <<"Out">>].vote_value
                  = VoteOf(node_obj[n].logic)

\* an Active compound with three blocks or more between its junctions
C8_Witness ==
    \E n \in Built :
        /\ Parallel(n)
        /\ node_obj[n].logic.name = "active"
        /\ Cardinality(Diagram(n).edges) >= 6

(***************************************************************************)
(* Properties of the flattened output.                                     *)
(***************************************************************************)
\* the row that an index of a connection row designates
Designated(index, type) ==
    IF type = "Rbd block" THEN blocks[index + 1] ELSE nodes[index + 1]

IsRow(index, type) ==
    index + 1 \in (IF type = "Rbd block" THEN DOMAIN blocks ELSE DOMAIN nodes)

\* C9: add_connection never looks up an Id that add_block or add_node has
\* not registered before, and both indices of every connection row designate
\* a row that was emitted for the page of the connection.
C9_EndpointsRegistered ==
    /\ error # "KeyError(_ids)"
    /\ \A c \in connections :
          /\ IsRow(c.InputObjectIndex, c.InputObjectType)
          /\ IsRow(c.OutputObjectIndex, c.OutputObjectType)
          /\ Designated(c.InputObjectIndex, c.InputObjectType).Page = c.Page
          /\ Designated(c.OutputObjectIndex, c.OutputObjectType).Page = c.Page

\* a run that has serialized the connections of two pages
C9_Witness ==
    /\ pc = "serialized"
    /\ Cardinality({c.Page : c \in connections}) >= 2

\* C10: no two block rows carry the same Id and no two node rows carry the
\* same Id.
C10_UniqueIds ==
    /\ \A i, j \in DOMAIN blocks : i # j => blocks[i].Id # blocks[j].Id
    /\ \A i, j \in DOMAIN nodes : i # j => nodes[i].Id # nodes[j].Id

(***************************************************************************)
(* Properties of the end of the export.                                    *)
(***************************************************************************)
\* the run was ended by a step of export that follows Rbd.serialize
FailedAfterSerialize ==
    pc = "failed" /\ error \in {GetAttrRaises("failure_models"),
                                 "AttributeError(manpower_list)",
                                 "AttributeError(spares_list)"}

\* C11: commit() is called exactly once, as the last step of export, once
\* the diagram is serialized and the failure models, the manpower and the
\* spares are exported: no step between Rbd.serialize and commit ends the
\* run, and commit() is never called in a run that a fatal error ended.
C11_CommitOnceAtEnd ==
    /\ commits = (IF pc = "committed" THEN 1 ELSE 0)
    /\ ~FailedAfterSerialize

ConstructOutcomes(n) ==
    LET s == extract_subgraph(n)
    IN  {finalize_graph(UngroupedDiagram(s, n, node_obj[n].name, order),
                        node_obj[n].name) : order \in Perms(Succ(s, n))}

\* the rows that the emitter can hold after the next block of the stack is
\* serialized, one for each order of nx.topological_sort
SerializeOutcomes ==
    LET top == blocks_stack[Len(blocks_stack)]
        cblock == compound_block_index[top.block]
        st == [blocks |-> blocks, nodes |-> nodes,
               connections |-> connections, ids |-> ids,
               stack |-> SubSeq(blocks_stack, 1, Len(blocks_stack) - 1),
               error |-> "none"]
    IN  {SerializedBlock(st, cblock, top.path, top.instance, order) :
            order \in topological_sort(cblock.internal_graph)}

\* C13: the flattened output is a function of the input rows: neither the
\* diagram built for a compound nor the sequence of add_block, add_node and
\* add_connection calls of a serialized block depends on the order in which
\* the nodes of a graph are iterated.
C13_OutputDetermined ==
    /\ (pc = "construct" /\ cur = NoNode) =>
          \A n \in NextCompounds :
              (~HasGroup(extract_subgraph(n))
                  /\ extract_subgraph(n).nodes # {}) =>
                      Cardinality(ConstructOutcomes(n)) <= 1
    /\ (pc = "serialize" /\ blocks_stack # <<>>) =>
          Cardinality(SerializeOutcomes) <= 1

(***************************************************************************)
(* Errors of the synthesis.                                                *)
(***************************************************************************)
\* errors.py: the exceptions that derive from TranslatorError
TranslatorErrors == {"TranslatorError", "LoaderError", "ExporterError"}

\* the Groups that the next merge step can take all lack a logic
MergesGroupWithoutLogic ==
    /\ pc = "merge"
    /\ Cardinality(sg.nodes) # 2
    /\ DeepestGroups(sg, cur) # {}
    /\ \A dg \in DeepestGroups(sg, cur) : sg.obj[dg].logic = NoLogic

\* C14: merging a Group without logic that has more than one child raises
\* ExporterError, a TranslatorError, before any diagram is built for the
\* Group, and nothing is committed; merging a Group without logic that has
\* exactly one child raises nothing.
C14_GroupWithoutLogic ==
    /\ [][MergesGroupWithoutLogic =>
            /\ (\A dg \in DeepestGroups(sg, cur) : OutDegree(sg, dg) > 1) =>
                  /\ pc' = "failed"
                  /\ error' = "ExporterError"
                  /\ error' \in TranslatorErrors
                  /\ sg' = sg
                  /\ compound_block_index' = compound_block_index
            /\ (\A dg \in DeepestGroups(sg, cur) : OutDegree(sg, dg) = 1) =>
                  /\ pc' = "merge"
                  /\ error' = "none"
                  /\ \A dg \in DeepestGroups(sg, cur) :
                        sg'.obj[dg].type = "processed"]_vars
    /\ [](error = "ExporterError" =>
             /\ pc = "failed"
             /\ commits = 0
             /\ blocks = <<>> /\ nodes = <<>> /\ connections = {})

\* the merge of a Group without logic and with two children was refused
C14_Witness ==
    /\ error = "ExporterError"
    /\ \E dg \in DeepestGroups(sg, cur) :
          sg.obj[dg].logic = NoLogic /\ OutDegree(sg, dg) = 2

(***************************************************************************)
(* C15: while the failures graph is built, a FailureNode entry whose       *)
(* parent is the name of no entry of the components index, and a           *)
(* FailureEvent entry whose parent is no key of the failures index, each   *)
(* raise TranslatorError; otherwise every entry of the failures index      *)
(* contributes exactly one edge '<parent type>_<parent>' -> '<type>_<name>'*)
(***************************************************************************)
C15_Unresolved(n) ==
    LET e == failures_index[n]
    IN  IF e.type = "failurenode"
        THEN \A k \in DOMAIN components_index : k[1] # e.parent
        ELSE e.parent \notin DOMAIN failures_index

C15_ParentTypes(n) ==
    LET e == failures_index[n]
    IN  IF e.type = "failurenode"
        THEN {components_index[k].type :
                 k \in {x \in DOMAIN components_index : x[1] = e.parent}}
        ELSE {failures_index[e.parent].type}

C15_EdgesOf(n) ==
    {ed \in failures_graph.edges : ed[2] = <<failures_index[n].type, n>>}

C15_FailuresGraph ==
    /\ pc = "assign" =>
          /\ \A n \in DOMAIN failures_index :
                /\ ~C15_Unresolved(n)
                /\ Cardinality(C15_EdgesOf(n)) = 1
                /\ \A ed \in C15_EdgesOf(n) :
                      /\ ed[1][2] = failures_index[n].parent
                      /\ ed[1][1] \in C15_ParentTypes(n)
          /\ Cardinality(failures_graph.edges) =
                Cardinality(DOMAIN failures_index)
    /\ pc = "failed" =>
          /\ error = "TranslatorError"
          /\ \E n \in DOMAIN failures_index : C15_Unresolved(n)
          /\ failures_graph = NoGraph

C15_Witness ==
    /\ pc = "assign"
    /\ \E n, m \in DOMAIN failures_index :
          /\ failures_index[n].type = "failurenode"
          /\ failures_index[m].type = "failureevent"
          /\ failures_index[m].parent = n

C15_WitnessRaised ==
    /\ pc = "failed"
    /\ \E n, m \in DOMAIN failures_index :
          /\ failures_index[n].type = "failurenode"
          /\ failures_index[m].type = "failureevent"
          /\ ~C15_Unresolved(n)
          /\ C15_Unresolved(m)
          /\ failures_index[m].parent \in {k[1] : k \in DOMAIN components_index}

(***************************************************************************)
(* C16: the resolved hierarchy is the tree unfolding of the raw input      *)
(* graph from ROOT: the chains of base names of the directed paths from    *)
(* ROOT are the same in both graphs, and the resolved graph holds exactly  *)
(* one node below ROOT for each of them.                                   *)
(***************************************************************************)
RECURSIVE ChainsFrom(_, _, _)
\* the chains of base names of the paths of at most k edges that leave v
ChainsFrom(gr, v, k) ==
    IF k = 0 THEN {<<>>}
    ELSE {<<>>} \cup
         UNION {{<<component_basename(w)>> \o c :
                    c \in ChainsFrom(gr, w, k - 1)} : w \in Succ(gr, v)}

Chains(gr) == ChainsFrom(gr, ROOT, Cardinality(gr.nodes)) \ {<<>>}

\* no name of the input holds a dot
PlainNames == \A n \in raw_input_graph.nodes : Len(n) = 1

C16_TreeUnfolding ==
    (pc = "failures" /\ error = "none" /\ PlainNames) =>
        /\ Chains(components_graph) = Chains(raw_input_graph)
        /\ Cardinality(Descendants(components_graph, ROOT) \ {ROOT}) =
              Cardinality(Chains(raw_input_graph))

\* a parent->child edge of the input below ROOT that no edge of the resolved
\* tree stands for
C16_EdgeLost ==
    /\ pc = "failures"
    /\ PlainNames
    /\ \E e \in raw_input_graph.edges :
          /\ e[1] \in Descendants(raw_input_graph, ROOT)
          /\ \A d \in components_graph.edges :
                ~(/\ component_basename(d[1]) = component_basename(e[1])
                  /\ component_basename(d[2]) = component_basename(e[2])
                  /\ d[1] \in Descendants(components_graph, ROOT))

(***************************************************************************)
(* Properties of the merge of the Groups.                                  *)
(***************************************************************************)
\* the Groups that the step has merged: the step marks them 'Processed'
MergedGroups ==
    {n \in sg.nodes \cap sg'.nodes :
        /\ is_type(sg.obj[n], "group")
        /\ ~is_type(sg'.obj[n], "group")
        /\ n \in DOMAIN sg'.diagram}

\* the merged diagram d holds the copies d1 and d2 of two consecutive children
\* and, for every piece of d1 and every piece of d2, an edge from the sink
\* of the one to the source of the other
Bridged(d, d1, d2) ==
    /\ d1.nodes \cup d2.nodes \subseteq d.nodes
    /\ d1.edges \cup d2.edges \subseteq d.edges
    /\ \A w1 \in WeakComponents(d1), w2 \in WeakComponents(d2) :
          \E x \in w1, y \in w2 :
             /\ OutDegree(d1, x) = 0
             /\ InDegree(d2, y) = 0
             /\ <<x, y>> \in d.edges

\* the nodes of the copies of the diagrams of the children of a Group
CopiedNodes(s, group_node) ==
    UNION {UNION {r.d.nodes :
                     r \in get_diagram_instance(s.diagram[c], i)} :
              c \in Succ(s, group_node),
              i \in 0..(s.obj[group_node].instances - 1)}

\* C17: when a Group with logic And and several children is merged, then
\* for some order of its children, every two consecutive children and every
\* instance i of the Group, the merged diagram holds instance i of both
\* diagrams and an edge from the sink of the first to the source of the
\* second, one for each piece when a diagram, the first or the second, is
\* disconnected; and every edge that the merge adds joins two nodes of the
\* children's diagrams.
C17_AndMergeBridges ==
    [][\A dg \in MergedGroups :
          (/\ pc' = "merge"
           /\ sg.obj[dg].logic # NoLogic
           /\ sg.obj[dg].logic.name = "and"
           /\ OutDegree(sg, dg) > 1) =>
              LET d == sg'.diagram[dg]
              IN  /\ \E q \in MergeOrders(sg, dg) :
                     \A k \in 1..(Len(q) - 1) :
                     \A i \in 0..(sg.obj[dg].instances - 1) :
                        \E r1 \in get_diagram_instance(sg.diagram[q[k]], i),
                           r2 \in get_diagram_instance(sg.diagram[q[k + 1]],
                                                       i) :
                           Bridged(d, r1.d, r2.d)
                  /\ \A e \in d.edges :
                        {e[1], e[2]} \subseteq CopiedNodes(sg, dg)]_vars

\* the product of the instances of the Groups on the way from n down to v
RECURSIVE GroupCopies(_, _)
GroupCopies(n, v) ==
    LET p == CHOOSE u \in Pred(components_graph, v) : TRUE
    IN  IF p = n \/ node_obj[p].type # "group" THEN 1
        ELSE node_obj[p].instances * GroupCopies(n, p)

\* the elements that the diagram of the compound n has to show: its direct
\* children and the leaves reached through its Groups
Shown(n) ==
    {v \in Descendants(components_graph, n) \ {n} :
        /\ node_obj[v].type # "group"
        /\ \A u \in Descendants(components_graph, n) \ {n, v} :
              v \in Descendants(components_graph, u) =>
                 node_obj[u].type = "group"}

\* C18: the finalized diagram of every compound holds a block for every
\* instance of every direct child and of every leaf reached through its
\* Groups, whatever the logic of the compound, of the Groups and of the
\* parent of the leaf.
C18_NoChildDropped ==
    \A n \in Built :
        \A v \in Shown(n) :
            Cardinality(BlocksNamed(Diagram(n), node_obj[v].name)) >=
                node_obj[v].instances * GroupCopies(n, v)

\* the instance numbers of the blocks of d that stand for the element name
NumbersOf(d, name) == {d.obj[x].instance : x \in BlocksNamed(d, name)}

\* the clone r of the diagram d for the outer instance i holds, for every
\* block of d, a block renumbered to i * L + j, L being the number of blocks
\* of that element in d (to i + 1 when L = 1), and as many blocks as d
RenumberedClone(d, r, i) ==
    \A x \in d.nodes :
        LET o == d.obj[x]
            L == Cardinality(BlocksNamed(d, o.name))
        IN  /\ Cardinality(BlocksNamed(r, o.name)) = L
            /\ (IF L = 1 THEN i + 1 ELSE i * L + o.instance)
                  \in NumbersOf(r, o.name)

\* C19: the clones that get_diagram_instance makes of the diagram of a child
\* of a Group of M instances, for i = 0..M-1, renumber every block to
\* i * L + j (i + 1 for a single block), and the blocks of one element carry
\* pairwise distinct numbers over the M clones, whatever the order in which
\* the nodes of the diagram are iterated.
C19_ClonesRenumbered ==
    pc = "merge" =>
        \A c \in sg.nodes \cap DOMAIN sg.diagram :
        \A dg \in Pred(sg, c) :
            (/\ is_type(sg.obj[dg], "group")
             /\ sg.diagram[c].nodes \subseteq DOMAIN sg.diagram[c].obj) =>
                LET d == sg.diagram[c]
                    M == sg.obj[dg].instances
                    clones(i) == {r.d : r \in {x \in get_diagram_instance(d, i) :
                                                  x.error = "none"}}
                IN  /\ \A i \in 0..(M - 1) : \A r \in clones(i) :
                          RenumberedClone(d, r, i)
                    /\ \A i1, i2 \in 0..(M - 1) :
                          i1 # i2 =>
                             \A r1 \in clones(i1), r2 \in clones(i2) :
                             \A x \in d.nodes :
                                NumbersOf(r1, d.obj[x].name)
                                   \cap NumbersOf(r2, d.obj[x].name) = {}

(***************************************************************************)
(* Properties of the pages of the serialized records.                      *)
(***************************************************************************)
\* the Block and Node records that the step emits
EmittedRows ==
    {blocks'[i] : i \in (Len(blocks) + 1)..Len(blocks')}
        \cup {[Id |-> nodes'[i].Id, Page |-> nodes'[i].Page] :
                 i \in (Len(nodes) + 1)..Len(nodes')}

\* the block that Rbd.serialize starts with
TopLevelBlock == compound_block_index[node_obj[RbdRoot].name]

\* the step serializes the top-level block: nothing has been popped before
SerializesTopLevel ==
    /\ Len(blocks_stack) = 1
    /\ blocks_stack[1] = [block |-> node_obj[RbdRoot].name, path |-> <<>>,
                          instance |-> 0]
    /\ blocks = <<>>
    /\ nodes = <<>>

\* C20: the Page of every Block or Node record emitted from inside a nested
\* occurrence of a compound block is the Id of a Block record emitted before,
\* that of the occurrence in its parent's page, and all records of one
\* occurrence share it; the records of the top-level block have its name or
\* code as Page.
C20_PageIsParentId ==
    [][pc = "serialize" =>
          /\ \A r1, r2 \in EmittedRows : r1.Page = r2.Page
          /\ \A r \in EmittedRows :
                IF SerializesTopLevel
                THEN r.Page \in {TopLevelBlock.name,
                                 <<Text(TopLevelBlock.code)>>}
                ELSE \E i \in 1..Len(blocks) :
                        /\ blocks[i].Id = r.Page
                        /\ LET top == blocks_stack[Len(blocks_stack)]
                               path == StrAll(top.path)
                           IN  /\ Len(r.Page) > Len(path)
                               /\ SubSeq(r.Page, 1, Len(path)) = path]_vars

\* a record has been emitted inside an occurrence of a compound that lies
\* itself inside instance 2 of a compound
C20_Witness ==
    /\ pc \in {"serialize", "serialized"}
    /\ \E i \in 1..Len(blocks) :
          /\ Len(blocks[i].Page) >= 2
          /\ blocks[i].Page[1] = "2"
          /\ \E j \in 1..Len(blocks) : j < i /\ blocks[j].Id = blocks[i].Page

(***************************************************************************)
(* Properties of the flattening of the compound blocks.                    *)
(***************************************************************************)
\* the block that the step pops and its diagram
Popped == blocks_stack[Len(blocks_stack)]

PoppedDiagram == compound_block_index[Popped.block].internal_graph

\* the nodes of the popped diagram that refer to a compound block
RefersToCompound ==
    {u \in PoppedDiagram.nodes :
        PoppedDiagram.obj[u].name \in DOMAIN compound_block_index}

\* the stack entries that the step pushes for them
PushedEntries ==
    {[block |-> PoppedDiagram.obj[u].name,
      path |-> IF Popped.instance # 0
               THEN Append(Popped.path, Popped.instance) ELSE Popped.path,
      instance |-> PoppedDiagram.obj[u].instance] : u \in RefersToCompound}

\* the step serializes a block without raising
SerializesBlock == pc = "serialize" /\ blocks_stack # <<>> /\ pc' = "serialize"

\* every node that refers to a compound block is pushed, with the path
\* extended by the current instance if there is one
PushesCompounds ==
    /\ Len(blocks_stack') = Len(blocks_stack) - 1
                               + Cardinality(RefersToCompound)
    /\ SubSeq(blocks_stack', 1, Len(blocks_stack) - 1)
          = SubSeq(blocks_stack, 1, Len(blocks_stack) - 1)
    /\ {blocks_stack'[i] : i \in Len(blocks_stack)..Len(blocks_stack')}
          = PushedEntries

EmittedCount == Len(blocks') - Len(blocks) + Len(nodes') - Len(nodes)

\* C21 (as claimed): a node that refers to a compound block is pushed and is
\* not emitted; add_block/add_node is called only for the other nodes.
C21_CompoundNotEmitted ==
    [][SerializesBlock =>
          /\ PushesCompounds
          /\ EmittedCount =
                Cardinality(PoppedDiagram.nodes \ RefersToCompound)]_vars

\* C21 (amended): a node that refers to a compound block is pushed, with the
\* path extended by the current instance if there is one, and is emitted as
\* well: add_block/add_node is called once for every node of the diagram,
\* and the Block record of a pushed compound lies in the current page.
C21_CompoundPushedAndEmitted ==
    [][SerializesBlock =>
          /\ PushesCompounds
          /\ EmittedCount = Cardinality(PoppedDiagram.nodes)
          /\ \A i \in Len(blocks_stack)..Len(blocks_stack') :
                \E j \in (Len(blocks) + 1)..Len(blocks') :
                   LET en == blocks_stack'[i]
                       row == blocks'[j]
                   IN  /\ row.Page = parent_tokens(
                                        compound_block_index[Popped.block],
                                        Popped.path, Popped.instance)
                       /\ row.Id = parent_tokens(
                                      compound_block_index[en.block],
                                      en.path, en.instance)]_vars

\* a compound block has been pushed from inside instance 2 of a compound,
\* after its Block record was emitted
C21_Witness ==
    /\ pc = "serialize"
    /\ blocks_stack # <<>>
    /\ blocks_stack[Len(blocks_stack)].path = <<2>>
    /\ \E j \in 1..Len(blocks) :
          blocks[j].Id = parent_tokens(
              compound_block_index[blocks_stack[Len(blocks_stack)].block],
              <<2>>, blocks_stack[Len(blocks_stack)].instance)

(***************************************************************************)
(* extract_subgraph as the loop it is: the edges of nx.bfs_edges are taken *)
(* one by one and the compounds met so far are kept in the list fringe.    *)
(***************************************************************************)
\* nx.bfs_edges(gr, source): the orders in which the edges can be yielded,
\* queue being the nodes whose successors have not been visited yet
RECURSIVE BfsFrom(_, _, _)
BfsFrom(gr, queue, visited) ==
    IF queue = <<>> THEN {<<>>}
    ELSE LET u == Head(queue)
             fresh == Succ(gr, u) \ visited
         IN  UNION {{[i \in 1..Len(q) |-> <<u, q[i]>>] \o rest :
                       rest \in BfsFrom(gr, Tail(queue) \o q,
                                        visited \cup fresh)} :
                      q \in Perms(fresh)}

bfs_edges(gr, source) == BfsFrom(gr, <<source>>, {source})

\* nx.has_path(g, c, dst)
has_path(gr, c, dst) == dst \in Descendants(gr, c)

\* a slip: a compound joins the fringe before its own edge is examined
ExtractStep_fringe_first(e, st) ==
    LET dst == e[2]
        fringe1 == IF is_type(node_obj[dst], "compound")
                   THEN st.fringe \cup {dst} ELSE st.fringe
    IN  [fringe |-> fringe1,
         subgraph |-> IF \E c \in fringe1 :
                            has_path(components_graph, c, dst)
                      THEN st.subgraph ELSE st.subgraph \cup {e}]

\* one turn of the loop of extract_subgraph, for the edge e = (src, dst)
ExtractStep(e, st) ==
    LET dst == e[2]
    IN  [fringe |-> IF is_type(node_obj[dst], "compound")
                    THEN st.fringe \cup {dst} ELSE st.fringe,
         subgraph |-> IF \E c \in st.fringe :
                            has_path(components_graph, c, dst)
                      THEN st.subgraph ELSE st.subgraph \cup {e}]

\* the loop of extract_subgraph over the edges es: the edges of subgraph
RECURSIVE ExtractLoop(_, _)
ExtractLoop(es, st) ==
    IF es = <<>> THEN st.subgraph
    ELSE ExtractLoop(Tail(es), ExtractStep(Head(es), st))

\* the tree edges (u, v) below n with no compound strictly between n and v
OneLevelCut(n) ==
    {e \in components_graph.edges :
        /\ e[1] \in Descendants(components_graph, n)
        /\ \A w \in Descendants(components_graph, n) \ {n, e[2]} :
              e[2] \in Descendants(components_graph, w) =>
                 ~is_type(node_obj[w], "compound")}

\* the compounds for which a block is constructed
Compounds ==
    {n \in Visited(RbdRoot) : is_type(node_obj[n], "compound")}

\* C22: extract_subgraph(n) returns exactly the tree edges (u, v) with v a
\* descendant of n and no compound strictly between n and v, whatever the
\* order of the breadth-first traversal: a nested compound is a leaf of the
\* sub-graph and none of its descendants is included.
C22_OneLevelCut ==
    pc = "construct" =>
        \A n \in Compounds :
            /\ \A es \in bfs_edges(components_graph, n) :
                  ExtractLoop(es, [fringe |-> {}, subgraph |-> {}]) =
                      OneLevelCut(n)
            /\ extract_subgraph(n).edges = OneLevelCut(n)

\* a compound with a nested compound whose own child is cut off
C22_Witness ==
    /\ pc = "construct"
    /\ \E n \in Compounds :
       \E e1, e2 \in components_graph.edges :
          /\ e1[1] = n
          /\ e2[1] = e1[2]
          /\ is_type(node_obj[e1[2]], "compound")
          /\ e1 \in extract_subgraph(n).edges
          /\ e2 \notin extract_subgraph(n).edges

(***************************************************************************)
(* The failure logic laid over the merged diagram of a grouped compound.   *)
(***************************************************************************)
\* the compounds whose block was built from a Group and a failures graph
GroupedBlocks ==
    {c \in DOMAIN compound_block_index :
        /\ HasGroup(extract_subgraph(c))
        /\ extract_failures_subgraph(FailuresKey(c)) # NoGraph}

\* the failure events of the block c that sit under a failure node with
\* logic Or, Active or Standby and match blocks of the diagram of c
ParallelEvents(c) ==
    LET f == extract_failures_subgraph(FailuresKey(c))
        d == compound_block_index[c].internal_graph
    IN  {e \in f.edges :
            /\ HasFailureObj(f, e[1])
            /\ is_type(FailureObj(e[2]), "failureevent")
            /\ FailureObj(e[1]).logic.name \in {"or", "active", "standby"}
            /\ \E n \in DOMAIN d.obj : d.obj[n].name = FailureObj(e[2]).name}

\* the blocks of the diagram of c that match the failure event of the edge e
MatchingBlocks(c, e) ==
    LET d == compound_block_index[c].internal_graph
    IN  {n \in DOMAIN d.obj : d.obj[n].name = FailureObj(e[2]).name}

\* C23: for a failure event under a failure node with logic Or, Active or
\* Standby, every matching block is wired to a vote junction that carries the
\* k of that failure node's logic (none for Or), and the standby mode of
\* every matching block is read from that failure node's logic: Hot for
\* Active, Cold for Standby, none for Or.
C23_OverlayFromFailureNode ==
    \A c \in GroupedBlocks :
    \A e \in ParallelEvents(c) :
        LET d == compound_block_index[c].internal_graph
            uo == FailureObj(e[1])
            out == RbdNode(node_obj[c].name \o <<"Out">>,
                           IF uo.logic.name = "or" THEN 0
                           ELSE uo.logic.voting)
        IN  /\ ElementId(out) \in DOMAIN d.obj
            /\ d.obj[ElementId(out)] = out
            /\ \A n \in MatchingBlocks(c, e) :
                  /\ <<n, ElementId(out)>> \in d.edges
                  /\ d.obj[n].standby_mode = logic_to_standby_mode(uo.logic)

\* the case the overlay is about is reached: a block with a parallel event
C23_Overlaid ==
    \E c \in GroupedBlocks : ParallelEvents(c) # {}

\* the merged diagram on which apply_failure_logic is about to work
MergedDiagram ==
    sg.diagram[CHOOSE x \in Succ(sg, cur) : TRUE]

\* the merge loop of the compound cur has ended and the overlay is next
OverlayNext ==
    /\ pc = "merge"
    /\ Cardinality(sg.nodes) = 2
    /\ (CHOOSE x \in Succ(sg, cur) : TRUE) \in DOMAIN sg.diagram
    /\ extract_failures_subgraph(FailuresKey(cur)) # NoGraph

\* the blocks of the merged diagram matched by a failure event whose parent
\* failure node has logic And
AndMatched ==
    LET f == extract_failures_subgraph(FailuresKey(cur))
    IN  {n \in DOMAIN MergedDiagram.obj :
            \E e \in f.edges :
               /\ HasFailureObj(f, e[1])
               /\ is_type(FailureObj(e[2]), "failureevent")
               /\ FailureObj(e[1]).logic.name = "and"
               /\ MergedDiagram.obj[n].name = FailureObj(e[2]).name}

\* the nodes ns form a chain of edges of the diagram d
Chained(d, ns) ==
    \E q \in Perms(ns) : \A i \in 1..(Len(q) - 1) : <<q[i], q[i + 1]>> \in d.edges

\* C24: when the parent failure node of a matching failure event has logic
\* And, the overlay completes without error and the matching blocks are
\* chained in series in the diagram of the block.
C24_AndOverlayCompletes ==
    [][(OverlayNext /\ AndMatched # {}) =>
          /\ pc' = "construct"
          /\ cur \in DOMAIN compound_block_index'
          /\ Chained(compound_block_index'[cur].internal_graph, AndMatched)]_vars

\* the overlay of an And failure node has been attempted
C24_AndOverlayReached ==
    OverlayNext /\ AndMatched # {}

\* C25: every node of every finalized diagram is keyed by the string id of
\* the block or junction stored as its 'obj', the entry and exit junctions
\* included, so that the serialization can read the name, type and id of
\* every node and of both ends of every edge.
C25_NodesKeyedById ==
    \A c \in DOMAIN compound_block_index :
        LET d == compound_block_index[c].internal_graph
        IN  /\ \A n \in d.nodes :
                  n \in DOMAIN d.obj /\ ElementId(d.obj[n]) = n
            /\ \A e \in d.edges : e[1] \in DOMAIN d.obj /\ e[2] \in DOMAIN d.obj

\* the types of the structural elements, as they appear in a node's key
StructuralTypes == {"compound", "group", "basic"}

\* the roots of the failures graph
FailureRoots == {n \in failures_graph.nodes : InDegree(failures_graph, n) = 0}

\* C26: the failures graph is a directed forest: it has no directed cycle,
\* every node has at most one incoming edge, and every node lies in a tree
\* whose root is the node of a structural element.
C26_FailuresForest ==
    (pc = "assign" /\ error = "none") =>
        /\ IsDAG(failures_graph)
        /\ \A n \in failures_graph.nodes : InDegree(failures_graph, n) <= 1
        /\ \A n \in failures_graph.nodes :
              \E r \in FailureRoots :
                 /\ r[1] \in StructuralTypes
                 /\ n \in Descendants(failures_graph, r)

(***************************************************************************)
(* The merge loop alone: the models with Groups, up to the end of the      *)
(* construction of the blocks.  The loop is a 'while True' of one thread,  *)
(* so a pass that can be taken is taken: weak fairness of MergeStep.       *)
(***************************************************************************)
\* the models with Groups whose elements have one or two instances and whose
\* inner Group H, if there is one, holds at most two blocks
MergeInputs ==
    {input \in GroupInputs \cup NestedInputs :
        /\ \A c \in input.components : c.instances <= 2
        /\ \A b, c \in input.components :
              (b.name = "B" /\ b.parent = "H" /\ c.name = "C") =>
                 b.instances = 1}

InitMerge ==
    /\ InitExport
    /\ \E input \in MergeInputs :
          /\ component_list = input.components
          /\ logic_list = input.logic

NextMerge ==
    \/ BuildIndexes
    \/ BuildRawInputComponentGraph
    \/ ResolveDone
    \/ BuildFailuresGraph
    \/ AssignObjects
    \/ Translate
    \/ NormalizeBlockNames
    \/ ConstructCompoundBlock
    \/ BeginGroupedBlock
    \/ MergeStep
    \/ FinishGroupedBlock

SpecMerge ==
    /\ InitMerge
    /\ [][NextMerge]_vars
    /\ WF_vars(MergeStep)

\* the Groups of the spec graph that are not yet marked 'Processed'
Unprocessed(s) == {v \in s.nodes : is_type(s.obj[v], "group")}

\* the loop has ended: only the root and one node are left
MergeLoopEnded == pc = "merge" /\ Cardinality(sg.nodes) = 2

\* C27: the merge loop always terminates.  Every pass that does not raise
\* merges a deepest unprocessed Group and marks it Processed, and the loop,
\* once entered, ends with exactly two nodes left or by raising an error.
C27_MergeLoopTerminates ==
    /\ [][(pc = "merge" /\ pc' = "merge") =>
             \E dg \in DeepestGroups(sg, cur) :
                /\ Unprocessed(sg') = Unprocessed(sg) \ {dg}
                /\ dg \in sg'.nodes => sg'.obj[dg].type = "processed"]_vars
    /\ (pc = "merge") ~> (pc = "failed" \/ MergeLoopEnded)

\* the loop has ended after a pass that merged a Group with two children
C27_Witness ==
    /\ MergeLoopEnded
    /\ \E v \in sg.nodes : sg.obj[v].type = "processed"
    /\ \E c \in component_list : c.name = "H"

RECURSIVE Ancestry(_, _, _)
\* the base names of the nodes on the path from ROOT to v, ROOT left out;
\* k bounds the length of the path
Ancestry(gr, v, k) ==
    IF v = ROOT \/ k = 0 THEN <<>>
    ELSE Ancestry(gr, TreeParent(gr, v), k - 1) \o <<component_basename(v)>>

\* the nodes of the resolved graph that are clones: their name was relabelled
ClonedNodes ==
    {v \in Descendants(components_graph, ROOT) \ {ROOT} : Len(v) > 1}

\* C28: after the resolution the qualified name of every cloned node encodes
\* its full ancestry: the base names of all its ancestors below ROOT, in
\* order, followed by its own base name.
C28_NameEncodesAncestry ==
    (pc = "failures" /\ error = "none" /\ PlainNames) =>
        \A v \in ClonedNodes :
            v = Ancestry(components_graph, v, Cardinality(components_graph.nodes))

\* a clone below a clone whose name leaves out an ancestor other than ROOT
C28_AncestorLeftOut ==
    /\ pc = "failures" /\ error = "none" /\ PlainNames
    /\ \E v \in ClonedNodes :
          /\ v[1] # "ROOT"
          /\ Len(v) < Len(Ancestry(components_graph, v,
                                   Cardinality(components_graph.nodes)))

(***************************************************************************)
(* The resolver followed by _build_failures_graph and _assign_objects, on  *)
(* the hierarchies of the resolver: no failure rows.                       *)
(***************************************************************************)
NextAssign ==
    \/ BuildIndexes
    \/ BuildRawInputComponentGraph
    \/ ResolveStep
    \/ ResolveDone
    \/ BuildFailuresGraph
    \/ AssignObjects

SpecAssign == InitResolve /\ [][NextAssign]_vars

\* the edges of the resolved graph that are reached from ROOT
ReachedEdges ==
    {e \in components_graph.edges : e[1] \in Descendants(components_graph, ROOT)}

\* C29: relabelling preserves base names, so for every edge u -> v of the
\* resolved graph the key (basename(v), basename(u)) is in the component
\* index, and _assign_objects gives an object to every node reached from
\* ROOT without a failed lookup.
C29_EveryLookupSucceeds ==
    /\ (pc \in {"assign", "loaded"} /\ error = "none") =>
          \A e \in ReachedEdges :
             <<component_basename(e[2]), component_basename(e[1])>>
                \in DOMAIN components_index
    /\ error # "KeyError"
    /\ pc = "loaded" =>
          \A v \in Descendants(components_graph, ROOT) : v \in DOMAIN node_obj

\* the same for the hierarchies whose names hold no dot
C29_PlainLookupsSucceed ==
    PlainNames => C29_EveryLookupSucceeds

(***************************************************************************)
(* exporter/isograph/_functions.py: fmodel_export, for the failure model   *)
(* that FailureModel(...) has built from fm_row.  The keyword arguments of *)
(* emitter.add_failure_model are a function from the keyword to its value. *)
(***************************************************************************)
\* the keywords of the i-th triple
TripleKeys ==
    <<[eta |-> "eta1", beta |-> "beta1", gamma |-> "gamma1"],
      [eta |-> "eta2", beta |-> "beta2", gamma |-> "gamma2"],
      [eta |-> "eta3", beta |-> "beta3", gamma |-> "gamma3"]>>

\* 'beta, eta, gamma = fm.parameters[i - 1]' raises ValueError unless the
\* list has three values
UnpackRaises(parameters, i) == Len(parameters[i]) # 3

\* kwargs.update(beta<i>=beta, eta<i>=eta, gamma<i>=gamma) after the unpacking
UpdateTriple(kwargs, parameters, i) ==
    (TripleKeys[i].beta :> parameters[i][1]) @@
    (TripleKeys[i].eta :> parameters[i][2]) @@
    (TripleKeys[i].gamma :> parameters[i][3]) @@ kwargs

\* the body of the loop of fmodel_export for one failure model: the keyword
\* arguments handed to emitter.add_failure_model, or the error raised.  The
\* fourth test compares the bound method fm.distribution.lower, not its
\* result, with the list, and is never true.
fmodel_export(distribution, parameters) ==
    LET first == distribution \in {"weibull", "bi-weibull", "tri-weibull"}
        second == distribution \in {"bi-weibull", "tri-weibull"}
        third == FALSE
        raised == [state |-> "raised", error |-> "ValueError",
                   parameters |-> parameters, kwargs |-> <<>>]
        k0 == IF distribution = "exponential"
              THEN ("mttf" :> parameters[1]) ELSE <<>>
        k1 == IF first THEN UpdateTriple(k0, parameters, 1) ELSE k0
        k2 == IF second THEN UpdateTriple(k1, parameters, 2) ELSE k1
        k3 == IF third THEN UpdateTriple(k2, parameters, 3) ELSE k2
    IN  IF first /\ UnpackRaises(parameters, 1) THEN raised
        ELSE IF second /\ UnpackRaises(parameters, 2) THEN raised
        ELSE IF third /\ UnpackRaises(parameters, 3) THEN raised
        ELSE [state |-> "exported", error |-> "none",
              parameters |-> parameters, kwargs |-> k3]

FmodelExport ==
    /\ fm_result.state = "built"
    /\ fm_result' = fmodel_export(fm_row.distribution, fm_result.parameters)
    /\ UNCHANGED <<fm_row, irvars, rbdvars, emvars>>

NextFMExport ==
    \/ ConstructFailureModel
    \/ FmodelExport

SpecFMExport == InitFM /\ [][NextFMExport]_vars

\* the i-th (eta, beta, gamma) triple of the parameter string of fm_row
TripleOf(i) == Split(Split(fm_row.parameters, ":")[i], ",")

\* C30: the record handed to the emitter carries exactly the parameters of
\* the parameter string: for a Weibull, Bi-Weibull or Tri-Weibull model and
\* every i up to 1, 2 or 3, add_failure_model receives eta_i, beta_i and
\* gamma_i equal to the first, second and third value of the i-th triple
\* (for a parameter string of exactly that many triples of numbers).
C30_TriplesExported ==
    (/\ fm_result.state = "exported"
     /\ fm_row.distribution # "exponential"
     /\ ExactArity(fm_row.distribution, fm_row.parameters)) =>
        \A i \in 1..Arity(fm_row.distribution) :
            /\ {TripleKeys[i].eta, TripleKeys[i].beta, TripleKeys[i].gamma}
                  \subseteq DOMAIN fm_result.kwargs
            /\ fm_result.kwargs[TripleKeys[i].eta] = TripleOf(i)[1]
            /\ fm_result.kwargs[TripleKeys[i].beta] = TripleOf(i)[2]
            /\ fm_result.kwargs[TripleKeys[i].gamma] = TripleOf(i)[3]

\* a Weibull model whose first two values differ has been exported
C30_SwapVisible ==
    /\ fm_result.state = "exported"
    /\ fm_row.distribution = "weibull"
    /\ TripleOf(1)[1] # TripleOf(1)[2]

\* a Tri-Weibull model has been exported
C30_TriExported ==
    fm_result.state = "exported" /\ fm_row.distribution = "tri-weibull"

====
